---- MODULE Spec2Model ----
(***************************************************************************)
(* Breaker control of the Savant Energy integration: the switch entities   *)
(* (custom_components/savant_energy/switch.py), the DMX frame builder and  *)
(* sender (custom_components/savant_energy/utils.py) and the sensors the   *)
(* switch reads through the Home Assistant state machine.                  *)
(*                                                                         *)
(* Time is the monotonic clock in whole seconds.  Python's True, False and *)
(* None are the strings "True", "False" and "None"; a DMX address sensor   *)
(* without a value (state unknown) holds UnknownAddress.                   *)
(***************************************************************************)
EXTENDS Integers, Sequences, FiniteSets, TLC

\* ------------------------------------------------------------------ bounds
\* Highest DMX address the gateway reports for a device.
MaxAddr == 2
\* switch_cooldown of the config entry, in seconds (the default is 30).
Cooldown == 2
\* The clock stops advancing here.
MaxTime == 4
\* Calls of async_set_dmx_values, and reads of the DMX status, that are counted.
MaxRequests == 3
\* Characters of a device uid after its first three.
MaxTail == 5
\* Breakers in a telemetry document.
MaxBreakers == 2

\* time.monotonic() is a float: the cooldown notice is computed on a clock
\* of Resolution ticks to the second, up to MaxMonotonic ticks, for a
\* configured cooldown of up to MaxCooldown seconds.
Resolution == 2
MaxMonotonic == 10
MaxCooldown == 2

\* The longest stream a peer of the poll sends, in bytes.
MaxStream == 20

\* ------------------------------------------------------------- the devices
\* The devices of presentDemands, one switch entity each.  The sequence is
\* the order in which hass.states.async_all("sensor") yields their DMX
\* address sensors.
SensorOrder == <<"b1", "b2">>
Breakers == {SensorOrder[i] : i \in 1..Len(SensorOrder)}

\* State of a DMX address sensor that has no address (_dmx_address is None).
UnknownAddress == 0

\* States of a "<name> Relay Status" binary sensor in the state machine;
\* "missing" is a device for which no such entity exists.  The code treats
\* "unknown" and "unavailable" alike everywhere; "unavailable" stands for both.
ConfirmedStates == {"on", "off"}
RelayStates == ConfirmedStates \cup {"unavailable", "missing"}

Tri == {"True", "False", "None"}
ToTri(flag) == IF flag THEN "True" ELSE "False"

VARIABLES
    now,                  \* time.monotonic()
    last_command_time,    \* the module global _last_command_time
    attr_is_on,           \* _attr_is_on of each switch
    last_commanded_state, \* _last_commanded_state of each switch
    relay_status,         \* state of each device's Relay Status binary sensor
    dmx_address_sensor,   \* state of each device's DMX Address sensor
    testing_mode,         \* dmx_testing_mode of the config entry
    call,                 \* the async_turn_on/off call of each switch in flight
    ev,                   \* history: the handler that just ran and how it ended
    last_request_time,    \* history: when the latest toggle was requested, -1 if never
    last_accepted_time    \* history: when a toggle last passed the cooldown gate
                          \* and found a state to change, -1 if never

switchVars == <<now, last_command_time, attr_is_on, last_commanded_state,
                relay_status, dmx_address_sensor, testing_mode, call, ev,
                last_request_time, last_accepted_time>>

\* The write statistics and the liveness signal of utils.py.
VARIABLES
    datetime_now,             \* datetime.now(), in seconds
    dmx_api_stats,            \* the module global _dmx_api_stats
    last_successful_api_call, \* the module global _last_successful_api_call
    api_request_count,        \* the module global _api_request_count
    api_failure_count,        \* the module global _api_failure_count
    send,                     \* where the async_set_dmx_values call of each caller is
    sent,                     \* history: the step of async_set_dmx_values just taken
    last_gateway_success      \* history: when a call to the gateway last succeeded

sendVars == <<dmx_api_stats, last_successful_api_call, api_request_count,
              api_failure_count, send, sent, last_gateway_success>>

\* The DMX address cache of utils.py.
VARIABLES
    dmx_address_cache,  \* the module global _dmx_address_cache
    resolve,            \* where the async_get_dmx_address call of each task is
    resolved            \* history: the step of async_get_dmx_address just taken

cacheVars == <<dmx_address_cache, resolve, resolved>>

\* The DMX UID of a device.
VARIABLES
    uid,      \* device["uid"] of a device of presentDemands, a string
    self_dmx_uid  \* what calculate_dmx_uid(uid) gave each of its callers

uidVars == <<uid, self_dmx_uid>>

\* The telemetry socket and get_current_energy_snapshot.
VARIABLES
    document,     \* history: the telemetry document the peer encoded
    peer_header,  \* history: the header the peer put in front of it
    peer_stream,  \* the bytes the peer has still to deliver
    peer_closes,  \* whether the peer closes the connection after them
    data,         \* the local variable data: the bytes received
    snapshot_pc,  \* where the call of get_current_energy_snapshot is
    snapshot,     \* what the call returned
    snapshot_error  \* history: the exception raised inside the call

decoderVars == <<document, peer_header, peer_stream, peer_closes, data,
                 snapshot_pc, snapshot, snapshot_error>>

\* The cooldown notice of async_turn_on and async_turn_off.
VARIABLES
    time_monotonic,            \* time.monotonic(), in ticks
    self_cooldown,             \* self._cooldown, in seconds
    global_last_command_time,  \* _last_command_time, in ticks
    time_left                  \* history: the seconds the notice just shown names

noticeVars == <<time_monotonic, self_cooldown, global_last_command_time, time_left>>

\* The coordinator that polls the telemetry socket.
VARIABLES
    coordinator_data,    \* self.data["snapshot_data"]; None while self.data is None
    last_update_success  \* DataUpdateCoordinator.last_update_success

coordinatorVars == <<coordinator_data, last_update_success>>

\* The one lookup each DMX address sensor makes.
VARIABLES
    gateway_reachable,  \* whether the gateway answers a lookup now
    address_lookup      \* where the lookup of each device's DMX address sensor is

lookupVars == <<gateway_reachable, address_lookup>>

\* The scene storage of scene.py: the Store file and one SavantSceneStorage.
VARIABLES
    store,             \* the "scenes" dict in the Store file
    scenes,            \* self.scenes of the SavantSceneStorage the services use
    last_saved_state,  \* self._last_saved_state
    lock_owner,        \* the coroutine holding self._lock, "none" when free
    lock_waiter,       \* the coroutine suspended in self._lock.acquire()
    scene_ev           \* history: the storage operation that just ran

sceneVars == <<store, scenes, last_saved_state, lock_owner, lock_waiter, scene_ev>>

\* The SavantSceneButtonManager of button.py and its own SavantSceneStorage.
VARIABLES
    buttons,         \* self.buttons: the scene ids with a tracked button
    last_scene_ids,  \* self._last_scene_ids
    button_scenes,   \* self.scenes of the storage of the button platform
    refresh          \* where each running _refresh_buttons is

buttonVars == <<buttons, last_scene_ids, button_scenes, refresh>>

\* The set_dmx writes of scenes and buttons.
VARIABLES
    written,         \* history: the write a scene or button just started
    last_press_time  \* history: when a scene or button last started a write

pressVars == <<written, last_press_time>>

vars == <<switchVars, datetime_now, sendVars, cacheVars, uidVars, decoderVars,
          noticeVars, coordinatorVars, lookupVars, sceneVars, buttonVars, pressVars>>

\* Everything but the variables of one component.
outsideSwitch == <<datetime_now, sendVars, cacheVars, uidVars, decoderVars,
                  noticeVars, coordinatorVars,
                  lookupVars,
                  sceneVars, buttonVars, pressVars>>
outsideSend == <<switchVars, cacheVars, uidVars, decoderVars,
                  noticeVars, coordinatorVars,
                  lookupVars,
                  sceneVars, buttonVars, pressVars>>
outsideCache == <<switchVars, sendVars, uidVars, decoderVars,
                  noticeVars, coordinatorVars,
                  lookupVars,
                  sceneVars, buttonVars, pressVars>>
outsideUid == <<switchVars, datetime_now, sendVars, cacheVars, decoderVars,
                  noticeVars, coordinatorVars,
                  lookupVars,
                  sceneVars, buttonVars, pressVars>>
outsideDecoder == <<switchVars, datetime_now, sendVars, cacheVars, uidVars,
                  noticeVars, coordinatorVars,
                  lookupVars,
                  sceneVars, buttonVars, pressVars>>

outsideNotice == <<switchVars, datetime_now, sendVars, cacheVars, uidVars,
                   decoderVars, coordinatorVars, lookupVars,
                  sceneVars, buttonVars, pressVars>>
outsidePoll == <<switchVars, datetime_now, sendVars, cacheVars, uidVars, noticeVars,
                 lookupVars,
                  sceneVars, buttonVars, pressVars>>
outsideRelay == <<datetime_now, sendVars, cacheVars, uidVars, decoderVars, noticeVars,
                  lookupVars,
                  sceneVars, buttonVars, pressVars>>
outsideLookup == <<datetime_now, sendVars, cacheVars, uidVars, decoderVars, noticeVars,
                   coordinatorVars,
                  sceneVars, buttonVars, pressVars>>

outsideScene == <<switchVars, datetime_now, sendVars, cacheVars, uidVars, decoderVars,
                  noticeVars, coordinatorVars, lookupVars, buttonVars, pressVars>>
outsideButton == <<switchVars, datetime_now, sendVars, cacheVars, uidVars, decoderVars,
                   noticeVars, coordinatorVars, lookupVars, pressVars>>
outsidePress == <<datetime_now, sendVars, cacheVars, uidVars, decoderVars,
                  noticeVars, coordinatorVars, lookupVars, buttonVars>>

\* A timestamp that is None, and one that is not.
None == <<>>
At(t) == <<t>>

\* The tasks that call async_set_dmx_values: a switch (switch.py:201) and a
\* scene (scene.py:583).
SendCallers == {"switch", "scene"}

\* _dmx_api_stats as the module is loaded.  success_rate is a fraction
\* <<numerator, denominator>>; 100.0 is <<100, 1>>.
InitialDmxApiStats ==
    [request_count |-> 0, failure_count |-> 0, last_successful_call |-> None,
     success_rate |-> <<100, 1>>]

\* No step of async_set_dmx_values was just taken.
NoSend ==
    [caller |-> "none", testing_mode |-> FALSE, curl |-> FALSE,
     outcome |-> "none", result |-> "None"]

\* The tasks that call async_get_dmx_address: DMX address sensors being
\* added (dmx_address_sensor.py:134).
ResolveCallers == {"sensor_1", "sensor_2"}

\* The DMX UIDs looked up.
DmxUids == {"uid_1", "uid_2"}

\* A task that is not inside async_get_dmx_address.
NotResolving == [pc |-> "idle", dmx_uid |-> "none", now |-> 0]

\* No step of async_get_dmx_address was just taken.
NoResolve ==
    [caller |-> "none", dmx_uid |-> "none", step |-> "none", answer |-> "none",
     address |-> 0, result |-> None]

\* _dmx_address_cache = {}, with no lookup running.
CacheAtRest ==
    /\ dmx_address_cache = <<>>
    /\ resolve = [p \in ResolveCallers |-> NotResolving]
    /\ resolved = NoResolve

\* The callers of calculate_dmx_uid: a switch entity being constructed
\* (switch.py:55) and the set-up of the binary sensors (binary_sensor.py:31).
UidCallers == {"switch", "binary_sensor"}

\* No device looked at, no DMX UID computed.
UidAtRest ==
    /\ uid = <<>>
    /\ self_dmx_uid = [c \in UidCallers |-> None]

\* No call of get_current_energy_snapshot made.
DecoderAtRest ==
    /\ document = <<>>
    /\ peer_header = <<>>
    /\ peer_stream = <<>>
    /\ peer_closes = TRUE
    /\ data = <<>>
    /\ snapshot_pc = "idle"
    /\ snapshot = None
    /\ snapshot_error = "none"

\* utils.py as the module is loaded, with no call running.
\* No DMX address sensor has been added yet.
LookupAtRest ==
    /\ gateway_reachable = TRUE
    /\ address_lookup = [b \in Breakers |-> "not_added"]

\* The coordinator before its first refresh.
CoordinatorAtRest ==
    /\ coordinator_data = None
    /\ last_update_success = TRUE

NoticeAtRest ==
    /\ time_monotonic = 0
    /\ self_cooldown = 0
    /\ global_last_command_time = 0
    /\ time_left = None

SendAtRest ==
    /\ datetime_now = 0
    /\ dmx_api_stats = InitialDmxApiStats
    /\ last_successful_api_call = None
    /\ api_request_count = 0
    /\ api_failure_count = 0
    /\ send = [p \in SendCallers |-> "idle"]
    /\ sent = NoSend
    /\ last_gateway_success = None

\* No storage operation was just run.
NoSceneEvent == [op |-> "none", outcome |-> "none"]

\* An empty Store file, a SavantSceneStorage just constructed, its lock free.
SceneAtRest ==
    /\ store = <<>>
    /\ scenes = <<>>
    /\ last_saved_state = <<>>
    /\ lock_owner = "none"
    /\ lock_waiter = "none"
    /\ scene_ev = NoSceneEvent

\* The calls of _refresh_buttons that can be running at once: the one of
\* async_setup or of a timer tick, and the one of the next timer tick.
Refreshers == {"r1", "r2"}

\* A call of _refresh_buttons that is not running.
NotRefreshing == [pc |-> "idle", current_scene_ids |-> {}, removed_ids |-> {}]

\* A SavantSceneButtonManager just constructed.
ButtonAtRest ==
    /\ buttons = {}
    /\ last_scene_ids = {}
    /\ button_scenes = <<>>
    /\ refresh = [r \in Refreshers |-> NotRefreshing]

\* No scene or button started a write in the step just taken.
NoWrite == [path |-> "none", scene_id |-> <<>>, frame |-> <<>>, outcome |-> "none"]

PressAtRest ==
    /\ written = NoWrite
    /\ last_press_time = -1

\* Scenes and buttons with nothing stored and nothing pressed.
ScenesAtRest == SceneAtRest /\ ButtonAtRest /\ PressAtRest

\* A switch with no call suspended in async_set_dmx_values.
Idle == [pc |-> "idle", target |-> "None", channel_values |-> <<>>, frame |-> <<>>]

\* ----------------------------------------------------------- switch.py
\* _last_command_time = 0.0
InitialCommandTime == 0

\* Mutant of CooldownActive: the window closes a second early.
CooldownActiveShort(t, last) == t - last < Cooldown - 1

\* now - _last_command_time < self._cooldown
CooldownActive(t, last) == t - last < Cooldown

\* math.ceil(self._cooldown - (now - _last_command_time)), on whole seconds
TimeLeft(t, last) == Cooldown - (t - last)

\* _get_relay_status_state: True, False, or None when the sensor is missing
\* or its state is neither "on" nor "off".
GetRelayStatusState(b) ==
    IF relay_status[b] = "on" THEN "True"
    ELSE IF relay_status[b] = "off" THEN "False"
    ELSE "None"

\* The is_on property: the stored state when there is one, else the relay
\* status sensor, else off.
IsOn(b) ==
    IF attr_is_on[b] # "None" THEN attr_is_on[b] = "True"
    ELSE relay_status[b] = "on"

\* _fetch_dmx_address: the address from the sensor, None without one.
FetchDmxAddress(b) == dmx_address_sensor[b]

\* dict assignment d[k] = v
Put(d, k, v) == [a \in (DOMAIN d) \cup {k} |-> IF a = k THEN v ELSE d[a]]

\* Mutant of RelayValue: a device without a usable relay status is sent OFF.
RelayValueDefaultOff(b) == IF relay_status[b] = "on" THEN "255" ELSE "0"

\* The value _get_all_device_dmx_states gives a device: ON unless its relay
\* status sensor exists and says "off".
RelayValue(b) ==
    IF relay_status[b] # "missing" /\ relay_status[b] \notin {"unknown", "unavailable"}
    THEN IF relay_status[b] = "on" THEN "255"
         ELSE IF relay_status[b] = "off" THEN "0"
         ELSE "255"
    ELSE "255"

\* The loop of _get_all_device_dmx_states over the DMX address sensors.
RECURSIVE CollectDmxStates(_, _)
CollectDmxStates(i, dmx_states) ==
    IF i > Len(SensorOrder) THEN dmx_states
    ELSE LET b == SensorOrder[i] IN
         IF dmx_address_sensor[b] = UnknownAddress
         THEN CollectDmxStates(i + 1, dmx_states)
         ELSE CollectDmxStates(i + 1, Put(dmx_states, dmx_address_sensor[b], RelayValue(b)))

\* Mutant of GetAllDeviceDmxStates: the override is put in first, so that a
\* sensor with the same address overwrites it.
GetAllDeviceDmxStatesOverrideFirst(target_dmx_address, target_value) ==
    IF target_dmx_address # 0
    THEN CollectDmxStates(1, Put(<<>>, target_dmx_address, target_value))
    ELSE CollectDmxStates(1, <<>>)

\* _get_all_device_dmx_states: {address: value} of every device with an
\* address, then the override of the switch being toggled.
GetAllDeviceDmxStates(target_dmx_address, target_value) ==
    LET dmx_states == CollectDmxStates(1, <<>>) IN
    IF target_dmx_address # 0
    THEN Put(dmx_states, target_dmx_address, target_value)
    ELSE dmx_states

\* ------------------------------------------------------------- utils.py
MaxOf(S) == CHOOSE m \in S : \A x \in S : x <= m

\* str(value) == "255" or str(value).lower() == "on" or str(value) == "1"
IsOnValue(value) == value \in {"255", "on", "1"}

\* value_array = ["0"] * max_channel
ValueArrayDefault == "0"

\* Mutant of ValueArray: the frame is as long as the map has entries.
ValueArrayByCount(channel_values) ==
    [i \in 1..Cardinality(DOMAIN channel_values) |->
        IF i \in DOMAIN channel_values
        THEN IF IsOnValue(channel_values[i]) THEN "255" ELSE "0"
        ELSE ValueArrayDefault]

\* The frame async_set_dmx_values builds from channel_values.
ValueArray(channel_values) ==
    LET max_channel == IF DOMAIN channel_values = {} THEN 0
                       ELSE MaxOf(DOMAIN channel_values)
    IN [i \in 1..max_channel |->
          IF i \in DOMAIN channel_values
          THEN IF IsOnValue(channel_values[i]) THEN "255" ELSE "0"
          ELSE ValueArrayDefault]

\* ------------------------------------------------------------ the state
\* What a handler leaves behind for the history: the entity it ran on, the
\* path it took, and the value it returned to its caller (every path of
\* async_turn_on/off returns None, and none raises).  The history is cleared
\* when the clock or a sensor moves on.
Event(b, outcome) == [b |-> b, outcome |-> outcome, result |-> "None"]

\* The switch entities are constructed from whatever the relay status
\* sensors say at that moment.  Each DMX address sensor has made its one
\* lookup (async_added_to_hass) and holds the address the gateway gave, or
\* none when the lookup failed.
Init ==
    /\ now = 0
    /\ last_command_time = InitialCommandTime
    /\ relay_status \in [Breakers -> RelayStates]
    /\ attr_is_on = [b \in Breakers |-> GetRelayStatusState(b)]
    /\ last_commanded_state = attr_is_on
    /\ dmx_address_sensor \in [Breakers -> {UnknownAddress} \cup 1..MaxAddr]
    /\ testing_mode \in BOOLEAN
    /\ call = [b \in Breakers |-> Idle]
    /\ ev = Event("none", "none")
    /\ last_request_time = -1
    /\ last_accepted_time = -1
    /\ SendAtRest
    /\ CacheAtRest
    /\ UidAtRest
    /\ DecoderAtRest
    /\ NoticeAtRest /\ CoordinatorAtRest /\ ScenesAtRest /\ LookupAtRest

\* ------------------------------------------------------- async_turn_on/off
\* Mutant of AfterSend: _last_commanded_state is left as it was.
AfterSendStateOnly(b, target, success) ==
    /\ attr_is_on' = [attr_is_on EXCEPT ![b] = target]
    /\ UNCHANGED last_commanded_state

\* The state of switch b after its command was sent: _attr_is_on and
\* _last_commanded_state take the target whatever _send_full_dmx_command
\* returned (its result is not looked at).
AfterSend(b, target, success) ==
    /\ attr_is_on' = [attr_is_on EXCEPT ![b] = target]
    /\ last_commanded_state' = [last_commanded_state EXCEPT ![b] = target]

\* Mutant of RateLimited: a rejected request restarts the cooldown window.
RateLimitedRestartsWindow(b) ==
    /\ ev' = Event(b, "rate_limited")
    /\ last_command_time' = now
    /\ UNCHANGED <<attr_is_on, last_commanded_state, call, last_accepted_time>>

\* The cooldown branch of async_turn_on/off: the "Switch Action Delayed"
\* notification is created and the call returns.
RateLimited(b) ==
    /\ ev' = Event(b, "rate_limited")
    /\ UNCHANGED <<last_command_time, attr_is_on, last_commanded_state, call,
                   last_accepted_time>>

\* Mutant of NoChange: a request for the state the switch has stamps
\* _last_command_time.
NoChangeStartsWindow(b) ==
    /\ ev' = Event(b, "no_change")
    /\ last_command_time' = now
    /\ UNCHANGED <<attr_is_on, last_commanded_state, call, last_accepted_time>>

\* async_turn_on of a switch that is on, async_turn_off of one that is off:
\* the body under `if not self.is_on` / `if self.is_on` is skipped.
NoChange(b) ==
    /\ ev' = Event(b, "no_change")
    /\ UNCHANGED <<last_command_time, attr_is_on, last_commanded_state, call,
                   last_accepted_time>>

\* The body async_turn_on and async_turn_off share, up to the point where
\* async_set_dmx_values waits for curl (or returns, in testing mode).  Nothing
\* before that point suspends: the address and the states of the other
\* devices are read from the state machine.  Calls on different switches
\* interleave at the wait for curl; a switch runs one call at a time.
Command(b, want_on, value) ==
    /\ call[b].pc = "idle"
    /\ last_request_time' = now
    /\ UNCHANGED <<now, relay_status, dmx_address_sensor, testing_mode>>
    /\ UNCHANGED outsideSwitch
    /\ IF CooldownActive(now, last_command_time)
       THEN RateLimited(b)
       ELSE IF IsOn(b) = want_on
       THEN NoChange(b)
       ELSE /\ last_command_time' = now
            /\ last_accepted_time' = now
            /\ LET dmx_address == FetchDmxAddress(b) IN
               IF dmx_address = UnknownAddress
               THEN /\ ev' = Event(b, "address_unknown")
                    /\ UNCHANGED <<attr_is_on, last_commanded_state, call>>
               ELSE LET dmx_states == GetAllDeviceDmxStates(dmx_address, value) IN
                    IF testing_mode
                    THEN /\ AfterSend(b, ToTri(want_on), TRUE)
                         /\ ev' = Event(b, "not_sent_testing")
                         /\ UNCHANGED call
                    ELSE /\ call' = [call EXCEPT ![b] =
                                       [pc |-> "curl", target |-> ToTri(want_on),
                                        channel_values |-> dmx_states,
                                        frame |-> ValueArray(dmx_states)]]
                         /\ ev' = Event(b, "sending")
                         /\ UNCHANGED <<attr_is_on, last_commanded_state>>

TurnOn(b) == Command(b, TRUE, "255")

TurnOff(b) == Command(b, FALSE, "0")

\* curl exits with returncode; async_set_dmx_values returns returncode = 0
\* and the rest of async_turn_on/off runs.
SendComplete(b, returncode) ==
    /\ call[b].pc = "curl"
    /\ AfterSend(b, call[b].target, returncode = 0)
    /\ call' = [call EXCEPT ![b] = Idle]
    /\ ev' = Event(b, IF returncode = 0 THEN "sent" ELSE "send_failed")
    /\ UNCHANGED <<now, last_command_time, relay_status, dmx_address_sensor,
                   testing_mode, last_request_time, last_accepted_time>>
    /\ UNCHANGED outsideSwitch

\* --------------------------------------------- _handle_coordinator_update
\* Mutant of NewState: only an "on" relay status is taken as a reading.
NewStateOnOnly(b) == IF relay_status[b] = "on" THEN "True" ELSE "None"

\* new_state: None without a relay status sensor, else state.lower() == "on"
NewState(b) ==
    IF relay_status[b] = "missing" THEN "None" ELSE ToTri(relay_status[b] = "on")

HandleCoordinatorUpdate(b) ==
    /\ IF NewState(b) # "None" /\ NewState(b) # last_commanded_state[b]
       THEN /\ attr_is_on' = [attr_is_on EXCEPT ![b] = NewState(b)]
            /\ last_commanded_state' = [last_commanded_state EXCEPT ![b] = NewState(b)]
            /\ ev' = Event(b, "adopted")
       ELSE /\ ev' = Event(b, "kept")
            /\ UNCHANGED <<attr_is_on, last_commanded_state>>
    /\ UNCHANGED <<now, last_command_time, relay_status, dmx_address_sensor,
                   testing_mode, call, last_request_time, last_accepted_time>>
    /\ UNCHANGED outsideSwitch

\* ------------------------------------------------------- the environment
\* A poll brought a new percentCommanded (or none): the relay status sensor
\* of b writes its state.
RelayStatusWrite(b, state) ==
    /\ relay_status[b] # "missing"
    /\ relay_status' = [relay_status EXCEPT ![b] = state]
    /\ ev' = Event("none", "none")
    /\ UNCHANGED <<now, last_command_time, attr_is_on, last_commanded_state,
                   dmx_address_sensor, testing_mode, call, last_request_time,
                   last_accepted_time>>
    /\ UNCHANGED outsideSwitch

Tick ==
    /\ now < MaxTime
    /\ now' = now + 1
    /\ ev' = Event("none", "none")
    /\ UNCHANGED <<last_command_time, attr_is_on, last_commanded_state, relay_status,
                   dmx_address_sensor, testing_mode, call, last_request_time,
                   last_accepted_time>>
    /\ UNCHANGED outsideSwitch

Next ==
    \/ \E b \in Breakers : TurnOn(b)
    \/ \E b \in Breakers : TurnOff(b)
    \/ \E b \in Breakers, returncode \in {0, 1} : SendComplete(b, returncode)
    \/ \E b \in Breakers : HandleCoordinatorUpdate(b)
    \/ \E b \in Breakers, state \in RelayStates \ {"missing"} : RelayStatusWrite(b, state)
    \/ Tick

Spec == Init /\ [][Next]_vars

\* The switch entities with no request made: what the other components of
\* the integration start from when they are looked at on their own.
SwitchAtRest ==
    /\ now = 0
    /\ last_command_time = InitialCommandTime
    /\ relay_status = [b \in Breakers |-> "missing"]
    /\ attr_is_on = [b \in Breakers |-> "None"]
    /\ last_commanded_state = attr_is_on
    /\ dmx_address_sensor = [b \in Breakers |-> UnknownAddress]
    /\ testing_mode = FALSE
    /\ call = [b \in Breakers |-> Idle]
    /\ ev = Event("none", "none")
    /\ last_request_time = -1
    /\ last_accepted_time = -1

\* ================================================= utils.py: the sender
\* DMX_API_TIMEOUT = 30
DMX_API_TIMEOUT == 30

\* The moments at which the clock is looked at: the start, and the seconds
\* around the end of the liveness window that opened at the start.
Instants == {0, 1, DMX_API_TIMEOUT, DMX_API_TIMEOUT + 1}

\* Mutant of SuccessRate: the share of the failed requests.
SuccessRateOfFailures(stats) == <<stats.failure_count * 100, stats.request_count>>

\* ((request_count - failure_count) / request_count) * 100.0
SuccessRate(stats) ==
    <<(stats.request_count - stats.failure_count) * 100, stats.request_count>>

\* Mutant of RecordSuccess: the rate is recomputed, the timestamp is not set.
RecordSuccessNoStamp(stats, t) == [stats EXCEPT !.success_rate = SuccessRate(stats)]

\* The success path of async_set_dmx_values, taken in testing mode too.
RecordSuccess(stats, t) ==
    [stats EXCEPT !.last_successful_call = At(t), !.success_rate = SuccessRate(stats)]

\* Mutant of RecordFailure: the failure is not counted.
RecordFailureUncounted(stats) == [stats EXCEPT !.success_rate = SuccessRate(stats)]

\* The failure paths of async_set_dmx_values: returncode != 0, and the
\* handler of `except Exception`.
RecordFailure(stats) ==
    LET counted == [stats EXCEPT !.failure_count = @ + 1]
    IN [counted EXCEPT !.success_rate = SuccessRate(counted)]

\* How the wait for curl can end: the exit status of the process, or an
\* exception out of _execute_curl_command.
CurlOutcomes == {"exit_0", "exit_nonzero", "exception"}

\* async_set_dmx_values up to its first wait: the request is counted, the
\* frame is built (see ValueArray), and in testing mode the call returns True
\* at once; otherwise it waits for curl.  The callers pass integer keys, so
\* building the frame does not raise.
AsyncSetDmxValues(p, tm) ==
    /\ send[p] = "idle"
    /\ dmx_api_stats.request_count < MaxRequests
    /\ LET counted == [dmx_api_stats EXCEPT !.request_count = @ + 1] IN
       IF tm
       THEN /\ dmx_api_stats' = RecordSuccess(counted, datetime_now)
            /\ send' = send
            /\ sent' = [caller |-> p, testing_mode |-> TRUE, curl |-> FALSE,
                        outcome |-> "none", result |-> "True"]
       ELSE /\ dmx_api_stats' = counted
            /\ send' = [send EXCEPT ![p] = "curl"]
            /\ sent' = [caller |-> p, testing_mode |-> FALSE, curl |-> TRUE,
                        outcome |-> "none", result |-> "None"]
    /\ UNCHANGED <<datetime_now, last_successful_api_call, api_request_count,
                   api_failure_count, last_gateway_success>>
    /\ UNCHANGED outsideSend

\* The wait for curl ends and async_set_dmx_values returns.
CurlDone(p, outcome) ==
    /\ send[p] = "curl"
    /\ send' = [send EXCEPT ![p] = "idle"]
    /\ IF outcome = "exit_0"
       THEN /\ dmx_api_stats' = RecordSuccess(dmx_api_stats, datetime_now)
            /\ last_gateway_success' = At(datetime_now)
       ELSE /\ dmx_api_stats' = RecordFailure(dmx_api_stats)
            /\ UNCHANGED last_gateway_success
    /\ sent' = [caller |-> p, testing_mode |-> FALSE, curl |-> FALSE,
                outcome |-> outcome,
                result |-> ToTri(outcome = "exit_0")]
    /\ UNCHANGED <<datetime_now, last_successful_api_call, api_request_count,
                   api_failure_count>>
    /\ UNCHANGED outsideSend

\* async_get_all_dmx_status and async_get_dmx_status, from request to answer:
\* the request is counted, a usable answer stamps _last_successful_api_call,
\* anything else counts a failure.
GetDmxStatus(ok) ==
    /\ api_request_count < MaxRequests
    /\ api_request_count' = api_request_count + 1
    /\ IF ok
       THEN /\ last_successful_api_call' = At(datetime_now)
            /\ last_gateway_success' = At(datetime_now)
            /\ UNCHANGED api_failure_count
       ELSE /\ api_failure_count' = api_failure_count + 1
            /\ UNCHANGED <<last_successful_api_call, last_gateway_success>>
    /\ sent' = NoSend
    /\ UNCHANGED <<datetime_now, dmx_api_stats, send>>
    /\ UNCHANGED outsideSend

\* is_dmx_api_available()
IsDmxApiAvailable ==
    IF last_successful_api_call = None THEN TRUE
    ELSE datetime_now - last_successful_api_call[1] < DMX_API_TIMEOUT

\* session.get(url, timeout=10)
RequestTimeout == 10

\* The clock moves on to a later instant.  A lookup of a DMX address that is
\* waiting for the gateway is given up after RequestTimeout seconds, so no
\* more than that passes while one waits; curl has no such limit.
Advance(t) ==
    /\ t > datetime_now
    /\ \A p \in ResolveCallers :
          resolve[p].pc = "http" => t - resolve[p].now <= RequestTimeout
    /\ datetime_now' = t
    /\ sent' = NoSend
    /\ resolved' = NoResolve
    /\ UNCHANGED <<dmx_api_stats, last_successful_api_call, api_request_count,
                   api_failure_count, send, last_gateway_success>>
    /\ UNCHANGED <<dmx_address_cache, resolve>>
    /\ UNCHANGED <<switchVars, uidVars, decoderVars, noticeVars, coordinatorVars,
                   lookupVars, sceneVars, buttonVars, pressVars>>

InitSend == SwitchAtRest /\ SendAtRest /\ CacheAtRest /\ UidAtRest /\ DecoderAtRest
    /\ NoticeAtRest /\ CoordinatorAtRest /\ ScenesAtRest /\ LookupAtRest

NextSend ==
    \/ \E p \in SendCallers, tm \in BOOLEAN : AsyncSetDmxValues(p, tm)
    \/ \E p \in SendCallers, outcome \in CurlOutcomes : CurlDone(p, outcome)
    \/ \E ok \in BOOLEAN : GetDmxStatus(ok)
    \/ \E t \in Instants : Advance(t)

SpecSend == InitSend /\ [][NextSend]_vars

\* Time passes.  Nothing makes the gateway answer, or curl exit: the curl
\* command line sets no time limit and process.communicate() is awaited
\* without one.
SpecSendLive == SpecSend /\ WF_vars(\E t \in Instants : Advance(t))

\* ======================================== utils.py: the address resolver
\* DMX_ADDRESS_CACHE_SECONDS = 3600
DMX_ADDRESS_CACHE_SECONDS == 3600

\* The moments at which the clock is looked at: the start, a second later,
\* and the seconds at which an entry stored at the start has just expired.
CacheInstants == {0, 1, DMX_ADDRESS_CACHE_SECONDS, DMX_ADDRESS_CACHE_SECONDS + 1}

\* Mutant of CacheFresh: an entry of exactly the cache time still counts.
CacheFreshInclusive(cache, dmx_uid, t) ==
    /\ dmx_uid \in DOMAIN cache
    /\ t - cache[dmx_uid].timestamp <= DMX_ADDRESS_CACHE_SECONDS

\* cache_key in _dmx_address_cache and
\* (now - cache_entry["timestamp"]).total_seconds() < DMX_ADDRESS_CACHE_SECONDS
CacheFresh(cache, dmx_uid, t) ==
    /\ dmx_uid \in DOMAIN cache
    /\ t - cache[dmx_uid].timestamp < DMX_ADDRESS_CACHE_SECONDS

\* _dmx_address_cache[cache_key] = {"address": address, "timestamp": now}
StoreAddress(cache, dmx_uid, address, t) ==
    Put(cache, dmx_uid, [address |-> address, timestamp |-> t])

\* Mutant of AfterFailedLookup: a failed lookup drops the entry of the UID.
AfterFailedLookupEvicts(cache, dmx_uid) ==
    [u \in (DOMAIN cache) \ {dmx_uid} |-> cache[u]]

\* The cache after a lookup that did not yield an address: every such path
\* logs and falls through to `return None`.
AfterFailedLookup(cache, dmx_uid) == cache

\* The ways a lookup fails: aiohttp.ClientError, asyncio.TimeoutError, a
\* status other than 200, a body that is not JSON, JSON without "address",
\* and an "address" that int() rejects.
FailedAnswers ==
    {"client_error", "timeout", "status_not_200", "not_json", "no_address",
     "address_not_int"}

\* async_get_dmx_address up to its first wait: now is read, a cached entry
\* younger than the cache time is returned, otherwise the request is sent.
\* The caller passes an IP address and a port (dmx_address_sensor.py:127-133).
AsyncGetDmxAddress(p, dmx_uid) ==
    /\ resolve[p].pc = "idle"
    /\ IF CacheFresh(dmx_address_cache, dmx_uid, datetime_now)
       THEN /\ resolved' = [caller |-> p, dmx_uid |-> dmx_uid, step |-> "hit",
                            answer |-> "none", address |-> 0,
                            result |-> At(dmx_address_cache[dmx_uid].address)]
            /\ UNCHANGED resolve
       ELSE /\ resolve' = [resolve EXCEPT ![p] =
                             [pc |-> "http", dmx_uid |-> dmx_uid, now |-> datetime_now]]
            /\ resolved' = [caller |-> p, dmx_uid |-> dmx_uid, step |-> "query",
                            answer |-> "none", address |-> 0, result |-> None]
    /\ UNCHANGED <<datetime_now, dmx_address_cache>>
    /\ UNCHANGED outsideCache

\* The wait for the gateway ends and async_get_dmx_address returns: an
\* answer with an address is stored under the time read when the call began.
HttpDone(p, answer, address) ==
    /\ resolve[p].pc = "http"
    /\ resolve' = [resolve EXCEPT ![p] = NotResolving]
    /\ LET dmx_uid == resolve[p].dmx_uid IN
       IF answer = "ok"
       THEN /\ dmx_address_cache' =
                  StoreAddress(dmx_address_cache, dmx_uid, address, resolve[p].now)
            /\ resolved' = [caller |-> p, dmx_uid |-> dmx_uid, step |-> "answer",
                            answer |-> answer, address |-> address,
                            result |-> At(address)]
       ELSE /\ dmx_address_cache' = AfterFailedLookup(dmx_address_cache, dmx_uid)
            /\ resolved' = [caller |-> p, dmx_uid |-> dmx_uid, step |-> "answer",
                            answer |-> answer, address |-> 0, result |-> None]
    /\ UNCHANGED datetime_now
    /\ UNCHANGED outsideCache

InitResolve ==
    SwitchAtRest /\ SendAtRest /\ CacheAtRest /\ UidAtRest /\ DecoderAtRest
    /\ NoticeAtRest /\ CoordinatorAtRest /\ ScenesAtRest /\ LookupAtRest

NextResolve ==
    \/ \E p \in ResolveCallers, dmx_uid \in DmxUids : AsyncGetDmxAddress(p, dmx_uid)
    \/ \E p \in ResolveCallers, address \in 1..MaxAddr : HttpDone(p, "ok", address)
    \/ \E p \in ResolveCallers, answer \in FailedAnswers : HttpDone(p, answer, 0)
    \/ \E t \in CacheInstants : Advance(t)

SpecResolve == InitResolve /\ [][NextResolve]_vars

\* ============================================ utils.py: calculate_dmx_uid
\* Strings are sequences of one-character strings.
HexDigits ==
    <<"0", "1", "2", "3", "4", "5", "6", "7", "8", "9", "A", "B", "C", "D", "E", "F">>

IsHexDigit(c) == \E i \in 1..Len(HexDigits) : HexDigits[i] = c

HexVal(c) == (CHOOSE i \in 1..Len(HexDigits) : HexDigits[i] = c) - 1

\* s[:n] and s[n:] for n >= 0
Take(s, n) == SubSeq(s, 1, IF n < Len(s) THEN n ELSE Len(s))
Drop(s, n) == IF n >= Len(s) THEN <<>> ELSE SubSeq(s, n + 1, Len(s))

\* s.endswith(suffix)
EndsWith(s, suffix) ==
    /\ Len(s) >= Len(suffix)
    /\ Drop(s, Len(s) - Len(suffix)) = suffix

\* s.split(".")[0]: s up to its first ".", all of s when it has none.
RECURSIVE BeforeFirstDot(_)
BeforeFirstDot(s) ==
    IF s = <<>> \/ Head(s) = "." THEN <<>>
    ELSE <<Head(s)>> \o BeforeFirstDot(Tail(s))

\* int(s, 16) of a string of upper-case hex digits; -1 for the ValueError
\* that an empty string or any other character raises.
RECURSIVE ParseHex(_, _)
ParseHex(s, acc) ==
    IF s = <<>> THEN acc
    ELSE IF ~IsHexDigit(Head(s)) THEN -1
    ELSE ParseHex(Tail(s), acc * 16 + HexVal(Head(s)))

IntBase16(s) == IF s = <<>> THEN -1 ELSE ParseHex(s, 0)

\* Mutant of Format02X: no padding to two digits, as f"{n:X}".
Format02XUnpadded(n) ==
    LET low == <<HexDigits[((n \div 16) % 16) + 1], HexDigits[(n % 16) + 1]>>
    IN IF n < 16 THEN <<HexDigits[n + 1]>>
       ELSE IF n < 256 THEN low ELSE <<HexDigits[(n \div 256) + 1]>> \o low

\* f"{n:02X}" for 0 <= n < 4096
Format02X(n) ==
    LET low == <<HexDigits[((n \div 16) % 16) + 1], HexDigits[(n % 16) + 1]>>
    IN IF n < 256 THEN low ELSE <<HexDigits[(n \div 256) + 1]>> \o low

\* Mutant of Incremented: the last two characters are written back as read.
IncrementedNot(last_two) ==
    IF IntBase16(last_two) >= 0 THEN Format02X(IntBase16(last_two)) ELSE last_two

\* incremented: the last two characters read as a hex number, plus one, in
\* at least two upper-case hex digits; the characters themselves when they
\* are no hex number.
Incremented(last_two) ==
    IF IntBase16(last_two) >= 0 THEN Format02X(IntBase16(last_two) + 1) ELSE last_two

\* calculate_dmx_uid(uid)
CalculateDmxUidOf(u) ==
    LET base == BeforeFirstDot(u)
        base_uid == Take(base, 4) \o <<":">> \o Drop(base, 4)
        split == IF Len(base_uid) >= 2 THEN Len(base_uid) - 2 ELSE 0
    IN IF EndsWith(u, <<".", "1">>)
       THEN Take(base_uid, split) \o Incremented(Drop(base_uid, split))
       ELSE base_uid

\* The device uids looked at: three digits, then up to MaxTail characters
\* that are hex digits, a letter that is none, or dots.
UidHead == <<"1", "2", "3">>
UidChars == {"1", "9", "F", "G", "."}
ShortUids == {UidHead \o t : t \in UNION {[1..n -> UidChars] : n \in 0..MaxTail}}

\* The uids of real devices: ten hex digits, of which the last two vary,
\* alone or followed by ".1".
LongHead == <<"1", "2", "3", "4", "5", "6", "7", "8">>
LongChars == {"0", "9", "F"}
LongUids ==
    {LongHead \o t \o suffix : t \in [1..2 -> LongChars], suffix \in {<<>>, <<".", "1">>}}

Uids == ShortUids \cup LongUids

\* A caller computes the DMX UID of the device.
CalculateDmxUid(c) ==
    /\ self_dmx_uid[c] = None
    /\ self_dmx_uid' = [self_dmx_uid EXCEPT ![c] = At(CalculateDmxUidOf(uid))]
    /\ UNCHANGED uid
    /\ UNCHANGED outsideUid

InitUid ==
    /\ SwitchAtRest /\ SendAtRest /\ CacheAtRest /\ DecoderAtRest /\ NoticeAtRest
    /\ CoordinatorAtRest /\ ScenesAtRest /\ LookupAtRest
    /\ uid \in Uids
    /\ self_dmx_uid = [c \in UidCallers |-> None]

NextUid == \E c \in UidCallers : CalculateDmxUid(c)

SpecUid == InitUid /\ [][NextUid]_vars

\* ============================== snapshot_data.py: the snapshot decoder
\* Bytes are numbers, byte strings and (ASCII) strings sequences of them.
\* A telemetry document is taken for the list of the percentCommanded of its
\* breakers and written as a JSON array of numbers.
NewLine == <<10>>

\* "SET_ENERGY="
Marker == <<83, 69, 84, 95, 69, 78, 69, 82, 71, 89, 61>>

\* The percentCommanded a breaker reports.
Percents == {0, 100}

Documents == UNION {[1..n -> Percents] : n \in 0..MaxBreakers}

\* What the peer sends ahead of the marker: nothing, an empty line, one line
\* of text, two lines of text.
Headers == {<<>>, <<10>>, <<72, 10>>, <<72, 10, 72, 10>>}

\* str(n) of a natural number, in ASCII
RECURSIVE Decimal(_)
Decimal(n) == IF n < 10 THEN <<48 + n>> ELSE Decimal(n \div 10) \o <<48 + (n % 10)>>

\* The numbers of a list, comma-separated.
RECURSIVE JsonItems(_)
JsonItems(doc) ==
    IF doc = <<>> THEN <<>>
    ELSE IF Len(doc) = 1 THEN Decimal(doc[1])
    ELSE Decimal(doc[1]) \o <<44>> \o JsonItems(Tail(doc))

\* The JSON text of a document: "[", the numbers, "]".
JsonDumps(doc) == <<91>> \o JsonItems(doc) \o <<93>>

\* The rest of a JSON array after "[": cur is the number being read (-1 when
\* no digit of it was seen), acc the numbers read.  None for text that is no
\* such array (json.JSONDecodeError).
RECURSIVE JsonArray(_, _, _)
JsonArray(text, cur, acc) ==
    IF text = <<>> THEN None
    ELSE LET c == Head(text) IN
         IF c >= 48 /\ c <= 57
         THEN JsonArray(Tail(text), (IF cur < 0 THEN 0 ELSE cur) * 10 + (c - 48), acc)
         ELSE IF c = 44
         THEN IF cur < 0 THEN None ELSE JsonArray(Tail(text), -1, Append(acc, cur))
         ELSE IF c = 93
         THEN IF Tail(text) # <<>> THEN None
              ELSE IF cur >= 0 THEN At(Append(acc, cur))
              ELSE IF acc = <<>> THEN At(<<>>) ELSE None
         ELSE None

\* json.loads(text), for the texts JsonDumps writes; None for any other.
JsonLoads(text) ==
    IF text = <<>> \/ Head(text) # 91 THEN None ELSE JsonArray(Tail(text), -1, <<>>)

\* The base64 alphabet: A-Z, a-z, 0-9, "+", "/".
B64Char(i) ==
    IF i < 26 THEN 65 + i
    ELSE IF i < 52 THEN 71 + i
    ELSE IF i < 62 THEN i - 4
    ELSE IF i = 62 THEN 43 ELSE 47

IsB64Char(c) == \E i \in 0..63 : B64Char(i) = c

B64Index(c) == CHOOSE i \in 0..63 : B64Char(i) = c

\* base64.b64encode(bytes)
RECURSIVE B64Encode(_)
B64Encode(b) ==
    IF b = <<>> THEN <<>>
    ELSE IF Len(b) = 1
    THEN <<B64Char(b[1] \div 4), B64Char((b[1] % 4) * 16), 61, 61>>
    ELSE IF Len(b) = 2
    THEN <<B64Char(b[1] \div 4), B64Char((b[1] % 4) * 16 + b[2] \div 16),
           B64Char((b[2] % 16) * 4), 61>>
    ELSE <<B64Char(b[1] \div 4), B64Char((b[1] % 4) * 16 + b[2] \div 16),
           B64Char((b[2] % 16) * 4 + b[3] \div 64), B64Char(b[3] % 64)>>
         \o B64Encode(Drop(b, 3))

\* The bytes of a run of base64 characters, four characters to three bytes;
\* a last group of two or three characters gives one or two bytes.
RECURSIVE B64Bytes(_)
B64Bytes(d) ==
    IF Len(d) < 2 THEN <<>>
    ELSE LET i == [k \in 1..Len(d) |-> B64Index(d[k])]
             b1 == i[1] * 4 + i[2] \div 16
         IN IF Len(d) = 2 THEN <<b1>>
            ELSE LET b2 == (i[2] % 16) * 16 + i[3] \div 4 IN
                 IF Len(d) = 3 THEN <<b1, b2>>
                 ELSE <<b1, b2, (i[3] % 4) * 64 + i[4]>> \o B64Bytes(Drop(d, 4))

\* The position of the first c in s, 0 when there is none.
IndexOf(s, c) ==
    IF \E i \in 1..Len(s) : s[i] = c
    THEN CHOOSE i \in 1..Len(s) : s[i] = c /\ \A j \in 1..(i - 1) : s[j] # c
    ELSE 0

\* base64.b64decode(s): characters outside the alphabet are dropped, the
\* characters up to the first "=" are decoded, and a count of them that the
\* padding does not bring to a multiple of four is binascii.Error (None).
B64Decode(s) ==
    LET kept == SelectSeq(s, LAMBDA c : IsB64Char(c) \/ c = 61)
        eq == IndexOf(kept, 61)
        d == IF eq = 0 THEN kept ELSE Take(kept, eq - 1)
        pads == IF eq = 0 THEN 0
                ELSE IF eq < Len(kept) /\ kept[eq + 1] = 61 THEN 2 ELSE 1
    IN IF \/ Len(d) % 4 = 0
          \/ (Len(d) % 4 = 2 /\ pads >= 2)
          \/ (Len(d) % 4 = 3 /\ pads >= 1)
       THEN At(B64Bytes(d))
       ELSE None

\* bytes.decode("utf-8") of ASCII bytes; None (UnicodeDecodeError) for bytes
\* that are not ASCII.
Utf8Decode(b) == IF \A k \in 1..Len(b) : b[k] < 128 THEN At(b) ELSE None

\* The position at which pat first occurs in s, 0 when it does not.
Find(s, pat) ==
    LET at(i) == i + Len(pat) - 1 <= Len(s) /\ SubSeq(s, i, i + Len(pat) - 1) = pat
    IN IF \E i \in 1..Len(s) : at(i)
       THEN CHOOSE i \in 1..Len(s) : at(i) /\ \A j \in 1..(i - 1) : ~at(j)
       ELSE 0

\* s.split(pat, 1)[1] and s.split(pat, 1)[0], for s that contains pat
AfterFirst(s, pat) == Drop(s, Find(s, pat) + Len(pat) - 1)
BeforeFirst(s, pat) == Take(s, Find(s, pat) - 1)

\* data.count(b"\n")
CountNewLines(b) == Cardinality({k \in 1..Len(b) : b[k] = 10})

\* data_str as it is handed to b64decode: the text after the first marker,
\* up to the first newline.
DataStr(received) ==
    LET s1 == IF Find(received, Marker) > 0
              THEN AfterFirst(received, Marker) ELSE received
        s2 == IF Find(s1, NewLine) > 0 THEN BeforeFirst(s1, NewLine) ELSE s1
        s3 == IF Find(s2, NewLine) > 0 THEN AfterFirst(s2, NewLine) ELSE s2
    IN  IF Take(s3, Len(Marker)) = Marker THEN Drop(s3, Len(Marker)) ELSE s3

\* get_current_energy_snapshot after its read loop: the bytes received are
\* decoded as UTF-8, data_str is cut out, base64-decoded, decoded as UTF-8
\* and parsed.  None stands for each `return None`.
DecodeSnapshot(received) ==
    IF received = <<>> \/ Utf8Decode(received) = None THEN None
    ELSE LET raw == B64Decode(DataStr(received))
             decoded_string == IF raw = None THEN None ELSE Utf8Decode(raw[1])
         IN IF decoded_string = None THEN None ELSE JsonLoads(decoded_string[1])

\* The exception the statements after the read loop raise on the bytes
\* received, "none" when they run to a return.
Raises(received) ==
    IF received = <<>> THEN "none"
    ELSE IF Utf8Decode(received) = None THEN "UnicodeDecodeError"
    ELSE LET raw == B64Decode(DataStr(received)) IN
         IF raw = None THEN "binascii.Error"
         ELSE IF Utf8Decode(raw[1]) = None THEN "UnicodeDecodeError"
         ELSE IF JsonLoads(Utf8Decode(raw[1])[1]) = None THEN "json.JSONDecodeError"
         ELSE "none"

\* Mutant of IsCaught: only the exceptions the handlers name are caught.
IsCaughtByName(exc) == exc \in {"binascii.Error", "json.JSONDecodeError", "socket.error"}

\* The handlers of get_current_energy_snapshot: binascii.Error and
\* json.JSONDecodeError inside, socket.error and Exception around the whole
\* body.  Every exception the body can raise is an Exception.
IsCaught(exc) == TRUE

\* How the call ends once its body raised exc ("none": it ran to a return
\* with the value result): every handler returns None.
Ends(exc, result) ==
    /\ snapshot_error' = exc
    /\ IF exc = "none"
       THEN snapshot_pc' = "returned" /\ snapshot' = result
       ELSE IF IsCaught(exc)
       THEN snapshot_pc' = "returned" /\ snapshot' = None
       ELSE snapshot_pc' = "raised" /\ snapshot' = None

\* get_current_energy_snapshot connects; the peer has a document to send,
\* framed as header, marker, base64 of the JSON text, newline.
Connect(doc, header) ==
    /\ snapshot_pc = "idle"
    /\ document' = doc
    /\ peer_header' = header
    /\ peer_stream' = header \o Marker \o B64Encode(JsonDumps(doc)) \o NewLine
    /\ peer_closes' = TRUE
    /\ data' = <<>>
    /\ snapshot_pc' = "recv"
    /\ snapshot' = None
    /\ snapshot_error' = "none"
    /\ UNCHANGED outsideDecoder

\* chunk = s.recv(4096) returns the next n bytes of the stream, as many as
\* have arrived (a stream longer than 4096 bytes always comes in several
\* chunks).  After the chunk that brings the second newline the loop ends
\* and the call decodes what it has and returns.
Recv(n) ==
    /\ snapshot_pc = "recv"
    /\ n \in 1..Len(peer_stream)
    /\ peer_stream' = Drop(peer_stream, n)
    /\ data' = data \o Take(peer_stream, n)
    /\ IF CountNewLines(data') >= 2
       THEN Ends(Raises(data'), DecodeSnapshot(data'))
       ELSE UNCHANGED <<snapshot_pc, snapshot, snapshot_error>>
    /\ UNCHANGED <<document, peer_header, peer_closes>>
    /\ UNCHANGED outsideDecoder

\* The peer has sent everything and closed: recv returns b"", the loop ends
\* and the call decodes what it has and returns.  While the peer keeps the
\* connection open and sends nothing, recv does not return: the socket has
\* no timeout.
RecvEof ==
    /\ snapshot_pc = "recv"
    /\ peer_stream = <<>>
    /\ peer_closes
    /\ Ends(Raises(data), DecodeSnapshot(data))
    /\ UNCHANGED <<document, peer_header, peer_stream, peer_closes, data>>
    /\ UNCHANGED outsideDecoder

InitDecoder ==
    SwitchAtRest /\ SendAtRest /\ CacheAtRest /\ UidAtRest /\ DecoderAtRest
    /\ NoticeAtRest /\ CoordinatorAtRest /\ ScenesAtRest /\ LookupAtRest

NextDecoder ==
    \/ \E doc \in Documents, header \in Headers : Connect(doc, header)
    \/ \E n \in 1..(Len(peer_stream) + 1) : Recv(n)
    \/ RecvEof

SpecDecoder == InitDecoder /\ [][NextDecoder]_vars


\* ------------------------------------------------------------ the poll
\* Marker, payload, newline: the line get_current_energy_snapshot looks for.
Framed(payload) == Marker \o payload \o NewLine

\* What a peer may have to send.  Nothing; a line with no payload; base64
\* one character short ("W10"); the base64 of "[]" with a character outside
\* the alphabet in it ("W!10="); the base64 of the byte FF; a line that is
\* not UTF-8; the base64 of "[" ; and two well-formed lines.
PeerStreams ==
    {<<>>,
     Framed(<<>>),
     Framed(<<87, 49, 48>>),
     Framed(<<87, 33, 49, 48, 61>>),
     Framed(B64Encode(<<255>>)),
     <<255, 10>>,
     Framed(B64Encode(<<91>>)),
     Framed(B64Encode(JsonDumps(<<100>>))),
     Framed(B64Encode(JsonDumps(<<0>>)))}

\* s.connect((address, port)) fails: socket.error is raised, and handled.
ConnectRefused ==
    /\ snapshot_pc = "idle"
    /\ data' = <<>>
    /\ peer_stream' = <<>>
    /\ peer_closes' = TRUE
    /\ Ends("socket.error", None)
    /\ UNCHANGED <<document, peer_header>>
    /\ UNCHANGED outsideDecoder

\* s.connect succeeds, to a peer that sends the first k bytes of stream and
\* then closes the connection, or keeps it open and sends nothing more.
ConnectPeer(stream, k, closes) ==
    /\ snapshot_pc = "idle"
    /\ k \in 0..Len(stream)
    /\ peer_stream' = Take(stream, k)
    /\ peer_closes' = closes
    /\ data' = <<>>
    /\ snapshot_pc' = "recv"
    /\ snapshot' = None
    /\ snapshot_error' = "none"
    /\ UNCHANGED <<document, peer_header>>
    /\ UNCHANGED outsideDecoder

\* Mutant of UpdatedData: a poll that got nothing returns nothing.
UpdatedDataCleared(previous, snapshot_data) == snapshot_data

\* What _async_update_data returns: self.data when the snapshot is None, the
\* snapshot otherwise (dmx_data, which is always {}, is left out).
UpdatedData(previous, snapshot_data) ==
    IF snapshot_data = None THEN previous ELSE snapshot_data

\* _async_update_data once get_current_energy_snapshot has ended, and the
\* DataUpdateCoordinator around it: the returned value becomes self.data; an
\* exception is logged and raised again, and the coordinator keeps its data
\* and clears last_update_success.
AsyncUpdateData ==
    /\ snapshot_pc \in {"returned", "raised"}
    /\ IF snapshot_pc = "returned"
       THEN /\ coordinator_data' = UpdatedData(coordinator_data, snapshot)
            /\ last_update_success' = TRUE
       ELSE /\ last_update_success' = FALSE
            /\ UNCHANGED coordinator_data
    /\ snapshot_pc' = "idle"
    /\ UNCHANGED <<document, peer_header, peer_stream, peer_closes, data, snapshot,
                   snapshot_error>>
    /\ UNCHANGED outsidePoll

InitPoll ==
    /\ SwitchAtRest /\ SendAtRest /\ CacheAtRest /\ UidAtRest /\ DecoderAtRest
    /\ NoticeAtRest /\ CoordinatorAtRest /\ ScenesAtRest /\ LookupAtRest

NextPoll ==
    \/ ConnectRefused
    \/ \E stream \in PeerStreams, k \in 0..MaxStream, closes \in BOOLEAN :
          ConnectPeer(stream, k, closes)
    \/ \E n \in 1..(Len(peer_stream) + 1) : Recv(n)
    \/ RecvEof
    \/ AsyncUpdateData

SpecPoll == InitPoll /\ [][NextPoll]_vars

\* ---------------------------------------- the relay status binary sensor
\* A record of presentDemands without the key percentCommanded.
Absent == -1

\* percentCommanded of a record, when it has one.
RelayPercents == {0, 50, 99, 100}

\* presentDemands as the relay status sensors see it: the percentCommanded
\* of the records, the record at position i being that of SensorOrder[i].
RelayDocuments ==
    UNION {[1..n -> RelayPercents \cup {Absent}] : n \in 0..Len(SensorOrder)}

\* The position of breaker b in SensorOrder.
Position(b) == CHOOSE i \in 1..Len(SensorOrder) : SensorOrder[i] = b

\* Whether presentDemands of the coordinator's data has a record for b.
Listed(cdata, b) == cdata # None /\ Position(b) <= Len(cdata[1])

\* binary_sensor.py, is_on: device.get("percentCommanded") == 100 of the
\* record of b, None when there is no such record.
BinarySensorIsOn(cdata, b) ==
    IF Listed(cdata, b) THEN ToTri(cdata[1][Position(b)] = 100) ELSE "None"

\* Mutant of BinarySensorAvailable: a record of b is enough.
BinarySensorAvailableIfListed(cdata, success, b) == success /\ Listed(cdata, b)

\* binary_sensor.py, available: the last update succeeded, presentDemands is
\* a list that is not empty, and it has a record of b with percentCommanded.
BinarySensorAvailable(cdata, success, b) ==
    /\ success
    /\ cdata # None
    /\ cdata[1] # <<>>
    /\ Listed(cdata, b)
    /\ cdata[1][Position(b)] # Absent

\* sensor.py, is_on: value == 100 when the value of the record of b is an
\* int, else None.  (Its async_setup_entry looks for presentDemands at the
\* top of coordinator.data, where it never is, and creates no entity.)
SensorIsOn(cdata, b) ==
    IF Listed(cdata, b) /\ cdata[1][Position(b)] # Absent
    THEN ToTri(cdata[1][Position(b)] = 100)
    ELSE "None"

\* The state an entity writes to the state machine: unavailable unless
\* available, else on, off or unknown after is_on ("unavailable" stands for
\* unknown too, as everywhere here).
EntityState(available, is_on) ==
    IF ~available THEN "unavailable"
    ELSE IF is_on = "True" THEN "on"
    ELSE IF is_on = "False" THEN "off"
    ELSE "unavailable"

\* The state of the relay status sensor of b.
RelayStatusState(cdata, success, b) ==
    EntityState(BinarySensorAvailable(cdata, success, b), BinarySensorIsOn(cdata, b))

\* binary_sensor.py, async_setup_entry: the first refresh of the coordinator
\* gives result (None: the fetch failed), and one entity is added for each
\* record with uid and percentCommanded; each writes its state.
SetupEntry(result) ==
    /\ \A b \in Breakers : relay_status[b] = "missing"
    /\ coordinator_data' = UpdatedData(coordinator_data, result)
    /\ last_update_success' = TRUE
    /\ relay_status' =
          [b \in Breakers |->
              IF Listed(coordinator_data', b) /\ coordinator_data'[1][Position(b)] # Absent
              THEN RelayStatusState(coordinator_data', TRUE, b)
              ELSE "missing"]
    /\ UNCHANGED <<now, last_command_time, attr_is_on, last_commanded_state,
                   dmx_address_sensor, testing_mode, call, ev, last_request_time,
                   last_accepted_time>>
    /\ UNCHANGED outsideRelay

\* A later refresh: result is what the fetch gave (None: it failed), raised
\* says that _async_update_data ended in an exception.  The entities that
\* exist write their state.
Refresh(result, raised) ==
    /\ \E b \in Breakers : relay_status[b] # "missing"
    /\ coordinator_data' =
          IF raised THEN coordinator_data ELSE UpdatedData(coordinator_data, result)
    /\ last_update_success' = ~raised
    /\ relay_status' =
          [b \in Breakers |->
              IF relay_status[b] = "missing" THEN "missing"
              ELSE RelayStatusState(coordinator_data', last_update_success', b)]
    /\ UNCHANGED <<now, last_command_time, attr_is_on, last_commanded_state,
                   dmx_address_sensor, testing_mode, call, ev, last_request_time,
                   last_accepted_time>>
    /\ UNCHANGED outsideRelay

RelayResults == {None} \cup {At(doc) : doc \in RelayDocuments}

InitRelay ==
    /\ SwitchAtRest /\ SendAtRest /\ CacheAtRest /\ UidAtRest /\ DecoderAtRest
    /\ NoticeAtRest /\ CoordinatorAtRest /\ ScenesAtRest /\ LookupAtRest

NextRelay ==
    \/ \E result \in RelayResults : SetupEntry(result)
    \/ \E result \in RelayResults, raised \in BOOLEAN : Refresh(result, raised)

SpecRelay == InitRelay /\ [][NextRelay]_vars

\* ------------------------------------------- the DMX address sensors
\* async_added_to_hass of the DMX address sensor of b: _dmx_address is None,
\* so _fetch_dmx_address is called, and waits for async_get_dmx_address.
AsyncAddedToHass(b) ==
    /\ address_lookup[b] = "not_added"
    /\ address_lookup' = [address_lookup EXCEPT ![b] = "fetching"]
    /\ UNCHANGED <<gateway_reachable, switchVars>>
    /\ UNCHANGED outsideLookup

\* async_get_dmx_address returns to _fetch_dmx_address: None when the
\* gateway cannot be reached, else the address the gateway gave.  An
\* address is stored and the sensor writes its state; None is logged, and
\* nothing calls _fetch_dmx_address again.
FetchDone(b, address) ==
    /\ address_lookup[b] = "fetching"
    /\ IF gateway_reachable
       THEN /\ address \in 1..MaxAddr
            /\ address_lookup' = [address_lookup EXCEPT ![b] = "found"]
            /\ dmx_address_sensor' = [dmx_address_sensor EXCEPT ![b] = address]
       ELSE /\ address = UnknownAddress
            /\ address_lookup' = [address_lookup EXCEPT ![b] = "failed"]
            /\ UNCHANGED dmx_address_sensor
    /\ ev' = Event("none", "none")
    /\ UNCHANGED <<now, last_command_time, attr_is_on, last_commanded_state,
                   relay_status, testing_mode, call, last_request_time,
                   last_accepted_time>>
    /\ UNCHANGED gateway_reachable
    /\ UNCHANGED outsideLookup

\* The gateway comes up.
GatewayComesUp ==
    /\ ~gateway_reachable
    /\ gateway_reachable' = TRUE
    /\ UNCHANGED <<address_lookup, switchVars>>
    /\ UNCHANGED outsideLookup

\* The switches with their DMX address sensors not yet added, no relay
\* status sensor and no address, and a gateway that is up or down.
InitLookup ==
    /\ SwitchAtRest /\ SendAtRest /\ CacheAtRest /\ UidAtRest /\ DecoderAtRest
    /\ NoticeAtRest /\ CoordinatorAtRest /\ ScenesAtRest
    /\ gateway_reachable \in BOOLEAN
    /\ address_lookup = [b \in Breakers |-> "not_added"]

NextLookup ==
    \/ \E b \in Breakers : AsyncAddedToHass(b)
    \/ \E b \in Breakers, address \in 0..MaxAddr : FetchDone(b, address)
    \/ GatewayComesUp
    \/ \E b \in Breakers : TurnOn(b)
    \/ \E b \in Breakers : TurnOff(b)
    \/ \E b \in Breakers, returncode \in {0, 1} : SendComplete(b, returncode)
    \/ Tick

SpecLookup == InitLookup /\ [][NextLookup]_vars

\* ------------------------------------------------- the cooldown notice
\* Mutant of MathCeil: the quotient is rounded down.
MathFloor(n, d) == n \div d

\* math.ceil(n / d) for n >= 0 and d > 0.
MathCeil(n, d) == (n + d - 1) \div d

\* The configured cooldown: CONF_SWITCH_COOLDOWN is validated as an int and
\* nothing else (config_flow.py:134-142).
Cooldowns == 0..MaxCooldown

\* async_turn_on / async_turn_off up to the cooldown test and the stamp that
\* follows it.  changes says whether the switch is not yet in the requested
\* state; what is sent then is the Command of the switch above.  Times are
\* in ticks, the cooldown is in seconds.
AsyncTurn(changes) ==
    LET elapsed == time_monotonic - global_last_command_time
    IN  /\ IF elapsed < self_cooldown * Resolution
           THEN /\ time_left' =
                      At(MathCeil(self_cooldown * Resolution - elapsed, Resolution))
                /\ UNCHANGED global_last_command_time
           ELSE /\ time_left' = None
                /\ global_last_command_time' =
                      IF changes THEN time_monotonic ELSE global_last_command_time
        /\ UNCHANGED <<time_monotonic, self_cooldown>>
        /\ UNCHANGED outsideNotice

\* time.monotonic() moves on by one tick.
MonotonicTick ==
    /\ time_monotonic < MaxMonotonic
    /\ time_monotonic' = time_monotonic + 1
    /\ time_left' = None
    /\ UNCHANGED <<self_cooldown, global_last_command_time>>
    /\ UNCHANGED outsideNotice

InitNotice ==
    /\ SwitchAtRest /\ SendAtRest /\ CacheAtRest /\ UidAtRest /\ DecoderAtRest
    /\ CoordinatorAtRest /\ ScenesAtRest /\ LookupAtRest
    /\ time_monotonic \in 0..MaxMonotonic
    /\ self_cooldown \in Cooldowns
    /\ global_last_command_time = InitialCommandTime
    /\ time_left = None

NextNotice ==
    \/ \E changes \in BOOLEAN : AsyncTurn(changes)
    \/ MonotonicTick

SpecNotice == InitNotice /\ [][NextNotice]_vars


\* ====================================================== scene.py: storage
\* A scene name is the sequence of its words; the words are separated by
\* single spaces.  An entity id "domain.device_suffix" is the sequence
\* <<domain, device, suffix>>.
Lower(w) ==
    CASE w = "Savant" -> "savant"
      [] w = "Scene" -> "scene"
      [] w = "Pool" -> "pool"
      [] w = "Spa" -> "spa"
      [] OTHER -> w

\* s.strip().lower()
LowerName(n) == [i \in 1..Len(n) |-> Lower(n[i])]

\* re.sub(r'^[Ss]avant\s+', '', raw_name, flags=re.IGNORECASE)
StripSavant(n) ==
    IF Len(n) >= 2 /\ Lower(n[1]) = "savant" THEN Tail(n) ELSE n

\* re.sub(r'\s+[Ss]cene$', '', base_label, flags=re.IGNORECASE).strip()
StripScene(n) ==
    IF Len(n) >= 2 /\ Lower(n[Len(n)]) = "scene" THEN SubSeq(n, 1, Len(n) - 1) ELSE n

\* slugify(base_label): the words in lower case, joined by "_".
Slugify(label) == LowerName(label)

\* _get_normalized_scene_parts(raw_name): base_label, final_name, final_id
BaseLabel(raw_name) == StripScene(StripSavant(raw_name))
FinalName(raw_name) == <<"Savant">> \o BaseLabel(raw_name) \o <<"Scene">>
FinalId(raw_name) == <<"savant">> \o Slugify(BaseLabel(raw_name)) \o <<"scene">>

\* The names the services are called with.
RawNames ==
    {<<"Pool">>, <<"pool">>, <<"Savant", "Pool">>, <<"Savant", "Savant", "Pool">>,
     <<"Pool", "Scene">>, <<"Spa">>}

\* The entity ids of the switch and of the DMX address sensor of a device.
SwitchEntityId(b) == <<"switch", b, "_breaker">>
DmxAddressEntityId(b) == <<"sensor", b, "_dmx_address">>
SwitchEntityIds == {SwitchEntityId(b) : b \in Breakers}

\* relay_states as create_scene fills it in when it is given none: every
\* breaker switch, on.
PopulatedRelayStates == [k \in SwitchEntityIds |-> TRUE]

\* The relay_states the services are called with: none, and all breakers off.
AllOff == [k \in SwitchEntityIds |-> FALSE]
RelayStatesInputs == {<<>>, AllOff}

\* The scenes lists save_scenes is called with.
MaxListed == 2
SceneLists ==
    UNION {[1..n -> [name : RawNames, relay_states : {AllOff}]] : n \in 0..MaxListed}

\* del d[k]
Del(d, k) == [a \in (DOMAIN d) \ {k} |-> d[a]]

\* The loops over self.scenes.items() of create, update and overwrite: the
\* display name made of the stored name of a scene other than those in but
\* equals final_name, case ignored.
DisplayNameTaken(all_scenes, but, final_name) ==
    \E existing_id \in (DOMAIN all_scenes) \ but :
        LowerName(FinalName(all_scenes[existing_id].name)) = LowerName(final_name)

\* asyncio.Lock: acquire() returns at once only when nobody holds the lock,
\* the caller included.
AcquiresAtOnce(owner) == owner = "none"

\* What async_save writes: self.scenes, or the last saved state when
\* self.scenes is empty and something was saved before.
SavedScenes(self_scenes, last) ==
    IF last # <<>> /\ self_scenes = <<>> THEN last ELSE self_scenes

\* A storage operation raised HomeAssistantError after loading the file.
Refuse(op, loaded) ==
    /\ scenes' = loaded
    /\ scene_ev' = [op |-> op, outcome |-> "raised"]
    /\ UNCHANGED <<store, last_saved_state>>

\* A storage operation saved new_scenes and returned.
Save(op, new_scenes) ==
    /\ scenes' = new_scenes
    /\ store' = new_scenes
    /\ last_saved_state' = new_scenes
    /\ scene_ev' = [op |-> op, outcome |-> "ok"]

\* async_create_scene(name, relay_states)
AsyncCreateScene(name, relay_states) ==
    /\ AcquiresAtOnce(lock_owner)
    /\ LET loaded == store
           final_id == FinalId(name)
       IN IF final_id \in DOMAIN loaded
          THEN Refuse("create", loaded)
          ELSE IF DisplayNameTaken(loaded, {}, FinalName(name))
          THEN Refuse("create", loaded)
          ELSE Save("create",
                    Put(loaded, final_id,
                        [name |-> BaseLabel(name),
                         relay_states |-> IF relay_states = <<>>
                                          THEN PopulatedRelayStates
                                          ELSE relay_states]))
    /\ UNCHANGED <<lock_owner, lock_waiter>>
    /\ UNCHANGED outsideScene

\* The name of the scene after async_update_scene; name is None or At(raw).
UpdatedName(loaded, scene_id, name) ==
    IF name # None
       /\ LowerName(FinalName(name[1])) # LowerName(FinalName(loaded[scene_id].name))
    THEN BaseLabel(name[1])
    ELSE loaded[scene_id].name

\* async_update_scene(scene_id, name, relay_states); relay_states is None or
\* At(dict).
AsyncUpdateScene(scene_id, name, relay_states) ==
    /\ AcquiresAtOnce(lock_owner)
    /\ LET loaded == store IN
       IF scene_id \notin DOMAIN loaded
       THEN Refuse("update", loaded)
       ELSE IF /\ name # None
               /\ LowerName(FinalName(name[1])) # LowerName(FinalName(loaded[scene_id].name))
               /\ DisplayNameTaken(loaded, {scene_id}, FinalName(name[1]))
       THEN Refuse("update", loaded)
       ELSE Save("update",
                 [loaded EXCEPT ![scene_id] =
                     [@ EXCEPT !.name = UpdatedName(loaded, scene_id, name),
                               !.relay_states = IF relay_states # None
                                                THEN relay_states[1] ELSE @]])
    /\ UNCHANGED <<lock_owner, lock_waiter>>
    /\ UNCHANGED outsideScene

\* async_delete_scene(scene_id)
AsyncDeleteScene(scene_id) ==
    /\ AcquiresAtOnce(lock_owner)
    /\ LET loaded == store IN
       IF scene_id \in DOMAIN loaded
       THEN Save("delete", Del(loaded, scene_id))
       ELSE Refuse("delete", loaded)
    /\ UNCHANGED <<lock_owner, lock_waiter>>
    /\ UNCHANGED outsideScene

\* The loop of async_overwrite_scenes over the list it is given.
RECURSIVE Processed(_, _, _, _)
Processed(list, i, self_scenes, processed_scene_ids) ==
    IF i > Len(list) THEN self_scenes
    ELSE LET final_id == FinalId(list[i].name) IN
         IF final_id \in processed_scene_ids
         THEN Processed(list, i + 1, self_scenes, processed_scene_ids)
         ELSE IF DisplayNameTaken(self_scenes, {}, FinalName(list[i].name))
         THEN Processed(list, i + 1, self_scenes, processed_scene_ids \cup {final_id})
         ELSE Processed(list, i + 1,
                        Put(self_scenes, final_id,
                            [id |-> final_id, name |-> BaseLabel(list[i].name),
                             relay_states |-> list[i].relay_states]),
                        processed_scene_ids \cup {final_id})

\* async_overwrite_scenes(scenes): it takes the lock, builds self.scenes
\* and awaits async_save, which takes the lock again.
AsyncOverwriteScenes(list) ==
    /\ AcquiresAtOnce(lock_owner)
    /\ LET built == Processed(list, 1, <<>>, {})
           holder == "async_overwrite_scenes"
       IN IF AcquiresAtOnce(holder)
          THEN /\ Save("overwrite", SavedScenes(built, last_saved_state))
               /\ UNCHANGED <<lock_owner, lock_waiter>>
          ELSE /\ scenes' = built
               /\ lock_owner' = holder
               /\ lock_waiter' = "async_save"
               /\ scene_ev' = [op |-> "overwrite", outcome |-> "suspended"]
               /\ UNCHANGED <<store, last_saved_state>>
    /\ UNCHANGED outsideScene

\* async_load of the services' storage: self.scenes is what the file holds.
AsyncLoad ==
    /\ scenes' = store
    /\ scene_ev' = [op |-> "load", outcome |-> "ok"]
    /\ UNCHANGED <<store, last_saved_state, lock_owner, lock_waiter>>
    /\ UNCHANGED outsideScene

\* The scene ids the services are called with.
SceneIds == {FinalId(n) : n \in RawNames}

InitScene ==
    /\ SwitchAtRest /\ SendAtRest /\ CacheAtRest /\ UidAtRest /\ DecoderAtRest
    /\ NoticeAtRest /\ CoordinatorAtRest /\ LookupAtRest /\ ScenesAtRest

NextScene ==
    \/ \E name \in RawNames, relay_states \in RelayStatesInputs :
          AsyncCreateScene(name, relay_states)
    \/ \E scene_id \in SceneIds, name \in {None} \cup {At(n) : n \in RawNames},
          relay_states \in {None, At(AllOff)} :
          AsyncUpdateScene(scene_id, name, relay_states)
    \/ \E scene_id \in SceneIds : AsyncDeleteScene(scene_id)
    \/ \E list \in SceneLists : AsyncOverwriteScenes(list)
    \/ AsyncLoad

SpecScene == InitScene /\ [][NextScene]_vars


\* ================================= scene.py, button.py: executing a scene
\* DEFAULT_CHANNEL_COUNT of button.py
DEFAULT_CHANNEL_COUNT == 50

\* entity_id.replace("_dmx_address", "") of the DMX address sensor of b
WithoutDmxAddress(b) == <<"sensor", b, "">>

\* The value async_execute_scene gives the DMX address sensor of b.
ExecuteValue(relay_states, b) ==
    LET breaker_id == DmxAddressEntityId(b) IN
    IF breaker_id \notin DOMAIN relay_states THEN "255"
    ELSE IF relay_states[breaker_id] THEN "255" ELSE "0"

\* The value SavantSceneButton.async_press gives the DMX address sensor of
\* b: relay_states.get(breaker_entity_id, True).
PressValue(relay_states, b) ==
    LET breaker_entity_id == WithoutDmxAddress(b) IN
    IF breaker_entity_id \notin DOMAIN relay_states THEN "255"
    ELSE IF relay_states[breaker_entity_id] THEN "255" ELSE "0"

\* The value SavantAllLoadsButton.async_press gives every sensor.
AllLoadsValue(relay_states, b) == "255"

\* The loop over the DMX address sensors of the three handlers; path names
\* the handler.
RECURSIVE SceneDmxValues(_, _, _, _)
SceneDmxValues(path, relay_states, i, dmx_values) ==
    IF i > Len(SensorOrder) THEN dmx_values
    ELSE LET b == SensorOrder[i]
             value == CASE path = "async_execute_scene" -> ExecuteValue(relay_states, b)
                        [] path = "scene_button" -> PressValue(relay_states, b)
                        [] OTHER -> AllLoadsValue(relay_states, b)
         IN IF dmx_address_sensor[b] = UnknownAddress
            THEN SceneDmxValues(path, relay_states, i + 1, dmx_values)
            ELSE SceneDmxValues(path, relay_states, i + 1,
                                Put(dmx_values, dmx_address_sensor[b], value))

\* The handler awaits async_set_dmx_values(ip_address, dmx_values, ...):
\* the frame is written at once unless the testing mode is on.
StartWrite(path, scene_id, dmx_values) ==
    /\ written' = [path |-> path, scene_id |-> scene_id, frame |-> ValueArray(dmx_values),
                   outcome |-> IF testing_mode THEN "not_sent_testing" ELSE "sent"]
    /\ last_press_time' = IF testing_mode THEN last_press_time ELSE now

\* The handler returned without calling async_set_dmx_values.
NoStartWrite(path, scene_id, outcome) ==
    /\ written' = [path |-> path, scene_id |-> scene_id, frame |-> <<>>,
                   outcome |-> outcome]
    /\ UNCHANGED last_press_time

\* SavantSceneManager.async_execute_scene(scene_id)
AsyncExecuteScene(scene_id) ==
    /\ IF scene_id \notin DOMAIN scenes
       THEN NoStartWrite("async_execute_scene", scene_id, "raised")
       ELSE LET dmx_values == SceneDmxValues("async_execute_scene",
                                             scenes[scene_id].relay_states, 1, <<>>)
            IN IF dmx_values = <<>>
               THEN NoStartWrite("async_execute_scene", scene_id, "no_addresses")
               ELSE StartWrite("async_execute_scene", scene_id, dmx_values)
    /\ UNCHANGED <<switchVars, sceneVars>>
    /\ UNCHANGED outsidePress

\* SavantSceneButton.async_press of the button of scene_id
SceneButtonPress(scene_id) ==
    /\ scene_id \in buttons
    /\ IF scene_id \notin DOMAIN button_scenes
       THEN NoStartWrite("scene_button", scene_id, "not_found")
       ELSE LET dmx_values == SceneDmxValues("scene_button",
                                             button_scenes[scene_id].relay_states, 1, <<>>)
            IN IF dmx_values = <<>>
               THEN NoStartWrite("scene_button", scene_id, "no_addresses")
               ELSE StartWrite("scene_button", scene_id, dmx_values)
    /\ UNCHANGED <<switchVars, sceneVars>>
    /\ UNCHANGED outsidePress

\* SavantAllLoadsButton.async_press
AllLoadsPress ==
    /\ LET dmx_values == SceneDmxValues("all_loads_button", <<>>, 1, <<>>)
       IN IF dmx_values = <<>>
          THEN StartWrite("all_loads_button", <<>>,
                          [addr \in 1..DEFAULT_CHANNEL_COUNT |-> "255"])
          ELSE StartWrite("all_loads_button", <<>>, dmx_values)
    /\ UNCHANGED <<switchVars, sceneVars>>
    /\ UNCHANGED outsidePress

\* The relay_states a stored scene can hold: some of the breaker switches,
\* each on or off.
SceneRelayStates == UNION {[keys -> BOOLEAN] : keys \in SUBSET SwitchEntityIds}

\* One scene is stored and has its button; every device has its DMX
\* address and a confirmed relay status; the testing mode is off.
InitPress ==
    /\ now = 0
    /\ last_command_time = InitialCommandTime
    /\ relay_status \in [Breakers -> ConfirmedStates]
    /\ attr_is_on = [b \in Breakers |-> GetRelayStatusState(b)]
    /\ last_commanded_state = attr_is_on
    /\ dmx_address_sensor \in [Breakers -> 1..MaxAddr]
    /\ testing_mode = FALSE
    /\ call = [b \in Breakers |-> Idle]
    /\ ev = Event("none", "none")
    /\ last_request_time = -1
    /\ last_accepted_time = -1
    /\ SendAtRest /\ CacheAtRest /\ UidAtRest /\ DecoderAtRest
    /\ NoticeAtRest /\ CoordinatorAtRest /\ LookupAtRest
    /\ \E relay_states \in SceneRelayStates :
          store = Put(<<>>, FinalId(<<"Pool">>),
                      [name |-> <<"Pool">>, relay_states |-> relay_states])
    /\ scenes = store
    /\ last_saved_state = store
    /\ lock_owner = "none"
    /\ lock_waiter = "none"
    /\ scene_ev = NoSceneEvent
    /\ buttons = DOMAIN store
    /\ last_scene_ids = DOMAIN store
    /\ button_scenes = store
    /\ refresh = [r \in Refreshers |-> NotRefreshing]
    /\ PressAtRest

NextPress ==
    \/ \E b \in Breakers : TurnOn(b)
    \/ \E b \in Breakers : TurnOff(b)
    \/ \E b \in Breakers, returncode \in {0, 1} : SendComplete(b, returncode)
    \/ Tick
    \/ \E scene_id \in SceneIds : AsyncExecuteScene(scene_id)
    \/ \E scene_id \in SceneIds : SceneButtonPress(scene_id)
    \/ AllLoadsPress

SpecPress == InitPress /\ [][NextPress]_vars


\* ================================== button.py: SavantSceneButtonManager
\* What the manager tracks once the new buttons are made: a button for
\* every scene id that was not in _last_scene_ids, has none yet and has a
\* name.
WithNewButtons(tracked, last, current_scene_data) ==
    tracked \cup {scene_id \in (DOMAIN current_scene_data) \ last :
                     "name" \in DOMAIN current_scene_data[scene_id]}

\* The loop over removed_ids from where it stands: it passes over the ids
\* in skipped, which have no button, and then either pops a button and
\* awaits its async_remove, or has no id left, sets _last_scene_ids and
\* returns.  A set is iterated in no particular order.
RemoveLoop(r, tracked, current_scene_ids, removed_ids) ==
    LET untracked == removed_ids \ tracked
        to_pop == removed_ids \cap tracked
    IN IF to_pop = {}
       THEN /\ buttons' = tracked
            /\ last_scene_ids' = current_scene_ids
            /\ refresh' = [refresh EXCEPT ![r] = NotRefreshing]
       ELSE \E skipped \in SUBSET untracked, scene_id \in to_pop :
               /\ buttons' = tracked \ {scene_id}
               /\ refresh' = [refresh EXCEPT ![r] =
                                 [pc |-> "async_remove",
                                  current_scene_ids |-> current_scene_ids,
                                  removed_ids |-> removed_ids \ (skipped \cup {scene_id})]]
               /\ UNCHANGED last_scene_ids

\* _refresh_buttons is called, by async_setup or by the timer, and awaits
\* storage.async_load().
RefreshButtons(r) ==
    /\ refresh[r].pc = "idle"
    /\ refresh' = [refresh EXCEPT ![r].pc = "async_load"]
    /\ UNCHANGED <<buttons, last_scene_ids, button_scenes>>
    /\ UNCHANGED sceneVars
    /\ UNCHANGED outsideButton

\* async_load returns: the new buttons are made and the loop over the
\* removed ids starts.
RefreshLoaded(r) ==
    /\ refresh[r].pc = "async_load"
    /\ button_scenes' = store
    /\ RemoveLoop(r, WithNewButtons(buttons, last_scene_ids, store), DOMAIN store,
                  last_scene_ids \ DOMAIN store)
    /\ UNCHANGED sceneVars
    /\ UNCHANGED outsideButton

\* button_entity.async_remove() returns and the loop goes on.
RemoveDone(r) ==
    /\ refresh[r].pc = "async_remove"
    /\ RemoveLoop(r, buttons, refresh[r].current_scene_ids, refresh[r].removed_ids)
    /\ UNCHANGED button_scenes
    /\ UNCHANGED sceneVars
    /\ UNCHANGED outsideButton

\* The names of the scenes created while the buttons are watched.
ButtonNames == {<<"Pool">>, <<"Spa">>}

InitButton ==
    /\ SwitchAtRest /\ SendAtRest /\ CacheAtRest /\ UidAtRest /\ DecoderAtRest
    /\ NoticeAtRest /\ CoordinatorAtRest /\ LookupAtRest /\ ScenesAtRest

NextButton ==
    \/ \E name \in ButtonNames : AsyncCreateScene(name, AllOff)
    \/ \E name \in ButtonNames : AsyncDeleteScene(FinalId(name))
    \/ \E r \in Refreshers : RefreshButtons(r)
    \/ \E r \in Refreshers : RefreshLoaded(r)
    \/ \E r \in Refreshers : RemoveDone(r)

SpecButton == InitButton /\ [][NextButton]_vars


\* ================================================================ claims
\* A toggle request on switch b.
Request(b) == TurnOn(b) \/ TurnOff(b)

\* The step starts a set_dmx write (a curl process) for switch b.
FrameSent(b) == call[b].pc = "idle" /\ call'[b].pc = "curl"

\* The step starts no set_dmx write at all.
NoFrameSent == \A c \in Breakers : ~FrameSent(c)

\* The call told its caller that the toggle failed: it returned something
\* other than the None a successful toggle returns.
ReportsFailure(e) == e.result # "None"

\* The switches with a set_dmx write in flight.
InFlight == {b \in Breakers : call[b].pc = "curl"}

\* C1 (as stated): of any two toggle requests less than Cooldown seconds
\* apart, on the same or on different breakers, the second is rejected as
\* rate-limited and sends no frame.
C1_AnyTwoRequests ==
    [][\A b \in Breakers :
          (Request(b) /\ last_request_time >= 0 /\ now - last_request_time < Cooldown)
          => (ev'.outcome = "rate_limited" /\ NoFrameSent)]_vars

\* C1 (amended): a toggle request made less than Cooldown seconds after a
\* request, on any breaker, that passed the cooldown gate and found a state
\* to change is rejected as rate-limited and sends no frame.
C1_CooldownGate ==
    [][\A b \in Breakers :
          (Request(b) /\ last_accepted_time >= 0 /\ now - last_accepted_time < Cooldown)
          => (ev'.outcome = "rate_limited" /\ NoFrameSent)]_vars

\* A request on one breaker was rejected while the write of a request on
\* another breaker, accepted earlier in the same window, is in flight.
C1_Witness ==
    /\ ev.outcome = "rate_limited"
    /\ last_accepted_time >= 0
    /\ last_request_time > last_accepted_time
    /\ last_request_time - last_accepted_time < Cooldown
    /\ \E c \in Breakers \ {ev.b} : call[c].pc = "curl"

\* C2: a toggle request made while the cooldown is active changes nothing:
\* the switch's on/off state, its last commanded state and the global
\* last-command time stay as they were, and no frame is sent.
C2_RateLimitedChangesNothing ==
    [][\A b \in Breakers :
          (Request(b) /\ now - last_command_time < Cooldown)
          => (/\ attr_is_on' = attr_is_on
              /\ last_commanded_state' = last_commanded_state
              /\ last_command_time' = last_command_time
              /\ call' = call)]_vars

\* A request was rejected inside the window a sent command opened.
C2_Witness ==
    /\ ev.outcome = "rate_limited"
    /\ last_command_time > 0
    /\ now - last_command_time < Cooldown
    /\ last_request_time = now

\* C3 (as stated): when the gateway write of a toggle fails, the switch's
\* on/off state and last commanded state are unchanged and the toggle is
\* reported as failed.
C3_FailedSendKeepsState ==
    [][\A b \in Breakers :
          SendComplete(b, 1)
          => (/\ attr_is_on'[b] = attr_is_on[b]
              /\ last_commanded_state'[b] = last_commanded_state[b]
              /\ ReportsFailure(ev'))]_vars

\* C4 (as stated): a toggle of a breaker whose DMX address is unknown sends
\* no frame, leaves the switch's on/off state and last commanded state
\* unchanged, and is reported as failed.
C4_UnknownAddressReported ==
    [][\A b \in Breakers :
          (Request(b) /\ ev'.outcome = "address_unknown")
          => (/\ NoFrameSent
              /\ attr_is_on' = attr_is_on
              /\ last_commanded_state' = last_commanded_state
              /\ ReportsFailure(ev'))]_vars

\* C5 (as stated, for the toggle that fails because the DMX address is
\* unknown): a failing toggle does not update the last-command time, so it
\* starts no cooldown window.
C5_FailedToggleStartsNoCooldown ==
    [][\A b \in Breakers :
          (Request(b) /\ ev'.outcome = "address_unknown")
          => last_command_time' = last_command_time]_vars

\* C6 (as stated): a telemetry update that arrives less than Cooldown seconds
\* after the switch's own command, with a relay status that differs from the
\* commanded value, changes neither the on/off state nor the last commanded
\* state.
C6_TelemetryIgnoredInCooldown ==
    [][\A b \in Breakers :
          (/\ HandleCoordinatorUpdate(b)
           /\ ev.b = b /\ ev.outcome \in {"sent", "not_sent_testing"}
           /\ now - last_command_time < Cooldown
           /\ relay_status[b] \in ConfirmedStates
           /\ GetRelayStatusState(b) # last_commanded_state[b])
          => (/\ attr_is_on' = attr_is_on
              /\ last_commanded_state' = last_commanded_state)]_vars

\* C7: a telemetry update that arrives at least Cooldown seconds after the
\* last command, with a confirmed relay status that differs from the last
\* commanded state, sets the on/off state and the last commanded state to
\* the telemetry value.
C7_TelemetryAdoptedAfterCooldown ==
    [][\A b \in Breakers :
          (/\ HandleCoordinatorUpdate(b)
           /\ now - last_command_time >= Cooldown
           /\ relay_status[b] \in ConfirmedStates
           /\ GetRelayStatusState(b) # last_commanded_state[b])
          => (/\ attr_is_on'[b] = GetRelayStatusState(b)
              /\ last_commanded_state'[b] = GetRelayStatusState(b))]_vars

\* An update has just adopted a confirmed relay status, a full cooldown
\* after a command was issued.
C7_Witness ==
    /\ ev.outcome = "adopted"
    /\ last_accepted_time >= 0
    /\ now - last_command_time >= Cooldown
    /\ relay_status[ev.b] \in ConfirmedStates
    /\ attr_is_on[ev.b] = GetRelayStatusState(ev.b)
    /\ last_commanded_state[ev.b] = GetRelayStatusState(ev.b)

\* C8 (as stated): at no time are the set_dmx writes of two toggles in
\* flight together.
C8_OneWriteInFlight == Cardinality(InFlight) <= 1

\* C9: the frame of every write has the length of the highest address of
\* the map it was built from (the target's override merged in), holds only
\* "255" and "0", and holds "255" at slot a exactly when the map has a ON.
C9_FrameDensity ==
    \A b \in InFlight :
        LET channel_values == call[b].channel_values
            frame == call[b].frame
        IN /\ dmx_address_sensor[b] \in DOMAIN channel_values
           /\ channel_values[dmx_address_sensor[b]]
                 = (IF call[b].target = "True" THEN "255" ELSE "0")
           /\ Len(frame) = MaxOf(DOMAIN channel_values)
           /\ \A a \in 1..Len(frame) :
                 /\ frame[a] \in {"255", "0"}
                 /\ frame[a] = "255"
                       <=> (a \in DOMAIN channel_values /\ channel_values[a] = "255")

\* A write is in flight whose map names two addresses, one ON and one OFF.
C9_Witness ==
    \E b \in InFlight :
        /\ Cardinality(DOMAIN call[b].channel_values) = 2
        /\ \E a \in DOMAIN call[b].frame : call[b].frame[a] = "255"
        /\ \E a \in DOMAIN call[b].frame : call[b].frame[a] = "0"

\* C10 (as stated): in the frame sent for a toggle, every address other than
\* the target's that does not belong to a breaker whose relay status is
\* confirmed OFF carries "255", the addresses no breaker occupies included.
C10_UntrackedStayEnergized ==
    [][\A b \in Breakers :
          FrameSent(b)
          => \A a \in 1..Len(call'[b].frame) :
                (/\ a # dmx_address_sensor[b]
                 /\ ~\E c \in Breakers :
                        dmx_address_sensor[c] = a /\ relay_status[c] = "off")
                => call'[b].frame[a] = "255"]_vars

\* The address of breaker c is held by no other breaker.
OwnAddress(c) ==
    \A d \in Breakers \ {c} : dmx_address_sensor[d] # dmx_address_sensor[c]

\* Breaker c has a DMX address but no confirmed relay status.
Unconfirmed(c) ==
    /\ dmx_address_sensor[c] # UnknownAddress
    /\ relay_status[c] \notin ConfirmedStates

\* C11 (as stated): in the frame built for a toggle, every breaker other than
\* the target that has a DMX address and whose relay status is missing,
\* unknown or unavailable has "255" at its address.
C11_UnconfirmedSentOn ==
    [][\A b \in Breakers :
          FrameSent(b)
          => \A c \in Breakers \ {b} :
                Unconfirmed(c) => call'[b].frame[dmx_address_sensor[c]] = "255"]_vars

\* C11 (amended): the same, for the breakers whose address no other breaker
\* holds.
C11_UnconfirmedOwnAddressSentOn ==
    [][\A b \in Breakers :
          FrameSent(b)
          => \A c \in Breakers \ {b} :
                (Unconfirmed(c) /\ OwnAddress(c))
                => call'[b].frame[dmx_address_sensor[c]] = "255"]_vars

\* A write is in flight for an OFF target while the other breaker, at an
\* address of its own, has no confirmed relay status and is sent ON.
C11_Witness ==
    \E b \in InFlight : \E c \in Breakers \ {b} :
        /\ ev = Event(b, "sending")
        /\ Unconfirmed(c) /\ OwnAddress(c)
        /\ call[b].target = "False"
        /\ call[b].frame[dmx_address_sensor[c]] = "255"
        /\ call[b].frame[dmx_address_sensor[b]] = "0"

\* C12: in the frame sent for a toggle, the slot of the toggled breaker's
\* address carries the requested value, whatever the sensors say about that
\* address.
C12_OverrideWins ==
    \A b \in InFlight :
        /\ dmx_address_sensor[b] \in 1..Len(call[b].frame)
        /\ call[b].frame[dmx_address_sensor[b]]
              = (IF call[b].target = "True" THEN "255" ELSE "0")

\* A write is in flight whose target value contradicts what the relay status
\* of a breaker at the same address gives: the target is sent OFF while the
\* other breaker at its address is not confirmed OFF, or the reverse.
C12_Witness ==
    \E b \in InFlight : \E c \in Breakers \ {b} :
        /\ ev = Event(b, "sending")
        /\ dmx_address_sensor[c] = dmx_address_sensor[b]
        /\ RelayValue(c) # call[b].frame[dmx_address_sensor[b]]
        /\ RelayValue(b) # call[b].frame[dmx_address_sensor[b]]

\* C27: when the write of a toggle succeeds, _attr_is_on and
\* _last_commanded_state of the switch are the requested target as soon as
\* the toggle completes, with no poll in between.
C27_StateIsTargetOnSuccess ==
    [][\A b \in Breakers :
          (call[b].pc = "curl" /\ ev' = Event(b, "sent"))
          => /\ call'[b].pc = "idle"
             /\ attr_is_on'[b] = call[b].target
             /\ last_commanded_state'[b] = call[b].target]_vars

\* A toggle has just completed with a successful write, and the relay status
\* sensor still reads the opposite of what the switch now shows.
C27_Witness ==
    /\ ev.outcome = "sent"
    /\ relay_status[ev.b] \in ConfirmedStates
    /\ attr_is_on[ev.b] # GetRelayStatusState(ev.b)
    /\ last_commanded_state[ev.b] = attr_is_on[ev.b]

\* C29: the first toggle request after the start is not rate-limited,
\* whatever the monotonic clock reads then.
C29_FirstRequestAccepted ==
    [][\A b \in Breakers :
          (Request(b) /\ last_request_time = -1) => ev'.outcome # "rate_limited"]_vars

\* C30: a turn_on of a switch that is on, or a turn_off of one that is off,
\* made while no cooldown is active, starts no write, changes no switch
\* state and leaves _last_command_time as it was.
C30_NoChangeDoesNothing ==
    [][\A b \in Breakers :
          (/\ now - last_command_time >= Cooldown
           /\ (TurnOn(b) /\ IsOn(b)) \/ (TurnOff(b) /\ ~IsOn(b)))
          => /\ NoFrameSent
             /\ UNCHANGED <<attr_is_on, last_commanded_state, relay_status, call,
                            last_command_time>>]_vars

\* A turn_on of a switch that is on has just returned, outside any cooldown
\* window, after an earlier toggle had been accepted.
C30_Witness ==
    /\ ev.outcome = "no_change"
    /\ attr_is_on[ev.b] = "True"
    /\ last_accepted_time >= 0
    /\ now - last_command_time >= Cooldown

\* C31: a coordinator update that finds the relay status of the breaker
\* neither "on" nor "off" leaves the switch's state and its last commanded
\* state as they were.
C31_UnconfirmedStatusNotAdopted ==
    [][\A b \in Breakers :
          (HandleCoordinatorUpdate(b) /\ relay_status[b] = "unavailable")
          => /\ attr_is_on'[b] = attr_is_on[b]
             /\ last_commanded_state'[b] = last_commanded_state[b]]_vars

\* Switch a stands at OFF as last commanded, and holds an address of its own.
CommandedOff(a) ==
    /\ attr_is_on[a] = "False"
    /\ last_commanded_state[a] = "False"
    /\ dmx_address_sensor[a] # UnknownAddress
    /\ \A d \in Breakers \ {a} : dmx_address_sensor[d] # dmx_address_sensor[a]

\* C32: the frame sent for a toggle of breaker b carries "0" at the address
\* of every other breaker that stands at OFF as last commanded, whatever
\* the relay status sensor of that breaker says at the time.
C32_EarlierOffKept ==
    [][\A b \in Breakers :
          FrameSent(b)
          => \A a \in Breakers \ {b} :
                CommandedOff(a) => call'[b].frame[dmx_address_sensor[a]] = "0"]_vars

\* ------------------------------------------------- claims on the sender
\* Two fractions are the same number.
SameRate(r, q) == r[1] * q[2] = q[1] * r[2]

\* The step taken is one in which a call of async_set_dmx_values returned.
Returned == sent'.result # "None"

\* The write of the call that returned failed: curl exited non-zero or the
\* wait for it raised.
WriteFailed == sent'.outcome \in {"exit_nonzero", "exception"}

\* C13: over any interleaving of Send calls, request_count never decreases,
\* failure_count never exceeds request_count, and when a Send returns
\* success_rate is (request_count - failure_count) / request_count * 100 of
\* the counters as they are then.
C13_StatsConsistent ==
    [][/\ dmx_api_stats'.request_count >= dmx_api_stats.request_count
       /\ dmx_api_stats'.failure_count <= dmx_api_stats'.request_count
       /\ Returned =>
            SameRate(dmx_api_stats'.success_rate,
                     <<(dmx_api_stats'.request_count - dmx_api_stats'.failure_count) * 100,
                       dmx_api_stats'.request_count>>)]_vars

\* A failed write returned while another call, counted but not finished, was
\* waiting for curl: the rate is that of one failure in two requests.
C13_Witness ==
    /\ sent.result = "False"
    /\ \E p \in SendCallers : send[p] = "curl"
    /\ dmx_api_stats.request_count = 2
    /\ dmx_api_stats.failure_count = 1
    /\ SameRate(dmx_api_stats.success_rate, <<50, 1>>)

\* C14: a Send counts its request, by exactly one, no later than it starts
\* curl; it ends by returning True or False; it returns False exactly when
\* the write failed, and then failure_count grew by exactly one; when it
\* returns True failure_count is unchanged.
C14_CountsAndReturnsBoolean ==
    [][/\ (sent'.curl \/ (Returned /\ sent'.testing_mode))
            => dmx_api_stats'.request_count = dmx_api_stats.request_count + 1
       /\ (Returned /\ ~sent'.testing_mode)
            => dmx_api_stats'.request_count = dmx_api_stats.request_count
       /\ Returned =>
            /\ sent'.result \in {"True", "False"}
            /\ (sent'.result = "False") <=> WriteFailed
            /\ dmx_api_stats'.failure_count =
                  dmx_api_stats.failure_count + (IF WriteFailed THEN 1 ELSE 0)]_vars

\* The wait for curl ended in an exception and the call returned False, the
\* second failure counted.
C14_Witness ==
    /\ sent.outcome = "exception"
    /\ sent.result = "False"
    /\ dmx_api_stats.failure_count = 2

\* C15: a Send in testing mode starts no curl process, returns True, sets
\* last_successful_call to the time of the call and leaves failure_count as
\* it was.
C15_TestingModeSendsNothing ==
    [][sent'.testing_mode =>
          /\ send' = send
          /\ ~sent'.curl
          /\ sent'.result = "True"
          /\ dmx_api_stats'.last_successful_call = At(datetime_now)
          /\ dmx_api_stats'.failure_count = dmx_api_stats.failure_count]_vars

\* A Send in testing mode returned, after an earlier failure and later than
\* the last recorded success.
C15_Witness ==
    /\ sent.testing_mode
    /\ sent.result = "True"
    /\ dmx_api_stats.failure_count = 1
    /\ datetime_now > 0
    /\ dmx_api_stats.last_successful_call = At(datetime_now)

\* C16: is_dmx_api_available() is true iff no call to the gateway has ever
\* succeeded or the latest one that did, a write included, is less than
\* DMX_API_TIMEOUT seconds old.
C16_AvailableIffRecentSuccess ==
    IsDmxApiAvailable <=>
        \/ last_gateway_success = None
        \/ datetime_now - last_gateway_success[1] < DMX_API_TIMEOUT

\* C25: a write to the gateway that has started ends, in success or in
\* failure, even when the gateway never answers; so the toggle that awaits
\* it completes.
C25_WriteEnds == \A p \in SendCallers : (send[p] = "curl") ~> (send[p] = "idle")

\* ----------------------------------------------- claims on the resolver
\* The cache holds an entry for dmx_uid that is younger than the cache time.
HasYoungEntry(dmx_uid) ==
    /\ dmx_uid \in DOMAIN dmx_address_cache
    /\ datetime_now - dmx_address_cache[dmx_uid].timestamp < DMX_ADDRESS_CACHE_SECONDS

\* The step taken is the start of a lookup.
Starts == resolved'.step \in {"hit", "query"}

\* The step taken is the end of a lookup that got an address from the gateway.
Answered == resolved'.step = "answer" /\ resolved'.answer = "ok"

\* The step taken is the end of a lookup that failed.
Failed == resolved'.step = "answer" /\ resolved'.answer \in FailedAnswers

\* What C17 says of a lookup, with the time the entry is stored under left
\* open: a young entry is returned without a query and only then; otherwise
\* the gateway is asked; its address is stored, under stamp, and returned;
\* the entries of the other DMX UIDs stay as they are.
ResolveContract(stamp) ==
    /\ Starts =>
         /\ (resolved'.step = "hit") <=> HasYoungEntry(resolved'.dmx_uid)
         /\ resolved'.step = "hit" =>
               /\ resolved'.result = At(dmx_address_cache[resolved'.dmx_uid].address)
               /\ resolve' = resolve
         /\ resolved'.step = "query" => resolve'[resolved'.caller].pc = "http"
         /\ dmx_address_cache' = dmx_address_cache
    /\ Answered =>
         /\ resolved'.dmx_uid \in DOMAIN dmx_address_cache'
         /\ dmx_address_cache'[resolved'.dmx_uid] =
               [address |-> resolved'.address, timestamp |-> stamp]
         /\ resolved'.result = At(resolved'.address)
         /\ \A u \in DmxUids \ {resolved'.dmx_uid} :
               /\ u \in DOMAIN dmx_address_cache' <=> u \in DOMAIN dmx_address_cache
               /\ u \in DOMAIN dmx_address_cache =>
                     dmx_address_cache'[u] = dmx_address_cache[u]

\* C17 (as stated): a lookup returns the cached address without a query iff
\* the cache holds an entry for the DMX UID younger than the cache time;
\* otherwise it asks the gateway, stores the address it gets under the time
\* of the store, returns it, and leaves the other entries alone.
C17_StoredAtCurrentTime == [][ResolveContract(datetime_now')]_vars

\* C17 (amended): the same, the entry being stored under the time the call
\* read when it began, before it asked the gateway.
C17_StoredAtCallTime ==
    [][ResolveContract(resolve[resolved'.caller].now)]_vars

\* An address was stored next to the entry of another DMX UID, a second after
\* the call that asked for it began.
C17_Witness ==
    /\ resolved.step = "answer"
    /\ resolved.answer = "ok"
    /\ DOMAIN dmx_address_cache = DmxUids
    /\ dmx_address_cache[resolved.dmx_uid].timestamp < datetime_now

\* C18 (as stated): a lookup that fails returns None and leaves the cache as
\* it was, and a lookup for the same DMX UID that starts next asks the
\* gateway.
C18_NextLookupAsks ==
    [][/\ Failed => (resolved'.result = None /\ dmx_address_cache' = dmx_address_cache)
       /\ (resolved.step = "answer" /\ resolved.answer \in FailedAnswers
             /\ Starts /\ resolved'.dmx_uid = resolved.dmx_uid)
            => resolved'.step = "query"]_vars

\* C18 (amended): a lookup that fails returns None and leaves the cache as it
\* was, and a lookup for the same DMX UID that starts next asks the gateway
\* unless the cache holds a young entry for it, stored by another lookup.
C18_FailureNotCached ==
    [][/\ Failed => (resolved'.result = None /\ dmx_address_cache' = dmx_address_cache)
       /\ (resolved.step = "answer" /\ resolved.answer \in FailedAnswers
             /\ Starts /\ resolved'.dmx_uid = resolved.dmx_uid)
            => (resolved'.step = "query" \/ HasYoungEntry(resolved.dmx_uid))]_vars

\* A lookup for a DMX UID whose entry had expired failed and returned None;
\* the expired entry is still there.
C18_Witness ==
    /\ resolved.step = "answer"
    /\ resolved.answer \in FailedAnswers
    /\ resolved.result = None
    /\ resolved.dmx_uid \in DOMAIN dmx_address_cache
    /\ ~HasYoungEntry(resolved.dmx_uid)

\* --------------------------------------------- claims on calculate_dmx_uid
\* The value of the last character of s as a hex digit, -1 when it is none.
LastNibble(s) ==
    IF s # <<>> /\ IsHexDigit(s[Len(s)]) THEN HexVal(s[Len(s)]) ELSE -1

\* The uid ends in ".1".
IsSubDevice(u) == Len(u) >= 2 /\ u[Len(u) - 1] = "." /\ u[Len(u)] = "1"

\* The uid without its last two characters.
Sibling(u) == SubSeq(u, 1, Len(u) - 2)

\* Every caller that has computed the DMX UID got the same string.
SameForAllCallers ==
    \A c, d \in UidCallers :
        (self_dmx_uid[c] # None /\ self_dmx_uid[d] # None) => self_dmx_uid[c] = self_dmx_uid[d]

\* The last nibble of the DMX UID computed for the uid is one more, mod 16,
\* than that of the DMX UID of its sibling.
NibbleOneMore ==
    \A c \in UidCallers :
        self_dmx_uid[c] # None =>
            LastNibble(self_dmx_uid[c][1])
               = (LastNibble(CalculateDmxUidOf(Sibling(uid))) + 1) % 16

HexSubDevice(u) ==
    /\ IsSubDevice(u)
    /\ ~IsSubDevice(Sibling(u))
    /\ LET k == CHOOSE i \in 1..Len(u) : u[i] = "." /\ \A j \in 1..(i - 1) : u[j] # "."
       IN /\ k >= 7
          /\ IsHexDigit(u[k - 1])
          /\ IsHexDigit(u[k - 2])

TenHexBase(u) ==
    /\ Len(BeforeFirstDot(u)) = 10
    /\ \A k \in 1..10 : IsHexDigit(u[k])

\* The string has the shape XXXX:YYYYYY.
Canonical(s) ==
    /\ Len(s) = 11
    /\ s[5] = ":"
    /\ \A k \in (1..11) \ {5} : IsHexDigit(s[k])

\* The uid ends in ".1" and the two characters before its first "." are FF.
ByteCarries(u) ==
    /\ IsSubDevice(u)
    /\ LET base == BeforeFirstDot(u)
       IN Len(base) >= 2 /\ base[Len(base) - 1] = "F" /\ base[Len(base)] = "F"

C20_RoundTrip == snapshot_pc = "returned" => snapshot = At(document)

\* Every byte the peer sends on the connection, in order.
WholeStream == peer_header \o Marker \o B64Encode(JsonDumps(document)) \o NewLine

\* C39: the result of get_current_energy_snapshot is the same for every way
\* the stream is cut into chunks: whenever the call has returned, it has
\* returned what it returns when the whole stream comes in one chunk.
C39_SameForEveryChunking ==
    snapshot_pc = "returned" => snapshot = DecodeSnapshot(WholeStream)

\* ----------------------------------------- claims on the cooldown notice
\* C26: a toggle request made while the cooldown is active shows a notice
\* naming N seconds, where N is the least whole number of seconds not below
\* cooldown - (now - _last_command_time), and 1 <= N <= cooldown.
C26_NoticeSeconds ==
    [][LET remaining == self_cooldown * Resolution
                         - (time_monotonic - global_last_command_time)
       IN  ((\E changes \in BOOLEAN : AsyncTurn(changes)) /\ remaining > 0)
           => /\ time_left' # None
              /\ LET N == time_left'[1]
                 IN  /\ N * Resolution >= remaining
                     /\ (N - 1) * Resolution < remaining
                     /\ 1 <= N
                     /\ N <= self_cooldown]_vars

\* A notice was just shown for a remaining time that is not a whole number
\* of seconds, after an earlier toggle had stamped _last_command_time.
C26_Witness ==
    /\ time_left # None
    /\ global_last_command_time > 0
    /\ (self_cooldown * Resolution
          - (time_monotonic - global_last_command_time)) % Resolution # 0

\* ------------------------------------------------- claims on the poll
\* The text handed to b64decode by the call that has ended, and its bytes.
Payload == DataStr(data)
PayloadBytes == B64Decode(Payload)

\* The payload has a character that is neither of the base64 alphabet nor
\* padding.
HasStrayCharacter == \E k \in 1..Len(Payload) : ~(IsB64Char(Payload[k]) \/ Payload[k] = 61)

\* The ways a fetch fails short of a document, read off the bytes received:
\* no connection, nothing received, bytes that are not UTF-8, a payload that
\* b64decode rejects, payload bytes that are not UTF-8, a text that is not
\* JSON (the empty payload among them).
FetchFailed ==
    \/ snapshot_error = "socket.error"
    \/ data = <<>>
    \/ \E k \in 1..Len(data) : data[k] >= 128
    \/ PayloadBytes = None
    \/ \E k \in 1..Len(PayloadBytes[1]) : PayloadBytes[1][k] >= 128
    \/ JsonLoads(PayloadBytes[1]) = None

C22_FailedPollKeepsData ==
    [][(AsyncUpdateData /\ (snapshot = None \/ snapshot_pc = "raised"))
       => /\ coordinator_data' = coordinator_data
          /\ snapshot_pc' = "idle"]_vars

\* A poll has just ended whose fetch failed on an error, and the coordinator
\* holds a document of an earlier poll.
C22_Witness ==
    /\ snapshot_pc = "idle"
    /\ snapshot = None
    /\ snapshot_error # "none"
    /\ coordinator_data # None
    /\ coordinator_data[1] # <<>>

\* C24: a call of get_current_energy_snapshot that is reading can always
\* take a step of its own, whatever the peer does: there are bytes for recv
\* to return, or the connection is closed and recv returns b"", so that the
\* read never waits on the peer alone.  (A read timeout would be a third
\* such step; the call has none.)
C24_ReadCanGoOn ==
    snapshot_pc = "recv" => (peer_stream # <<>> \/ peer_closes)

\* --------------------------------------- claims on the relay status sensor
\* percentCommanded of the record the coordinator holds for b, Absent when
\* the record has none; only for b with a record.
Commanded(b) == coordinator_data[1][Position(b)]

C28_ToggleAfterRecoverySends ==
    [][\A b \in Breakers :
          (Request(b) /\ gateway_reachable /\ address_lookup[b] = "failed")
          => ev'.outcome # "address_unknown"]_vars

\* ------------------------------------------- claims on the scene storage
\* C34: async_overwrite_scenes ends and leaves the lock of the storage
\* free: once it has run, it has saved and nobody holds the lock.
C34_OverwriteEndsLockFree ==
    scene_ev.op = "overwrite" => (scene_ev.outcome = "ok" /\ lock_owner = "none")

\* The display name of a stored scene, in lower case: the final name that
\* _get_normalized_scene_parts makes of the stored name.
DisplayName(all_scenes, scene_id) == LowerName(FinalName(all_scenes[scene_id].name))

\* C35: no two scenes in the file have the same display name, case ignored.
C35_DisplayNamesUnique ==
    \A a, b \in DOMAIN store : a # b => DisplayName(store, a) # DisplayName(store, b)

\* A stored scene other than but has the display name made of raw_name.
NameHeld(raw_name, but) ==
    \E other \in (DOMAIN store) \ but :
        DisplayName(store, other) = LowerName(FinalName(raw_name))

\* The storage operation of the step raised and the file is as it was.
RefusedUnchanged == scene_ev'.outcome = "raised" /\ store' = store

\* C36: a create whose id or display name is already stored, an update to
\* a name another scene holds, and an update or delete of an id that is not
\* stored raise an error and leave the file as it was.
C36_RefusedLeavesFile ==
    [][/\ \A name \in RawNames, relay_states \in RelayStatesInputs :
             (/\ AsyncCreateScene(name, relay_states)
              /\ (FinalId(name) \in DOMAIN store \/ NameHeld(name, {})))
             => RefusedUnchanged
       /\ \A scene_id \in SceneIds, name \in {None} \cup {At(n) : n \in RawNames},
             relay_states \in {None, At(AllOff)} :
             (/\ AsyncUpdateScene(scene_id, name, relay_states)
              /\ \/ scene_id \notin DOMAIN store
                 \/ name # None /\ NameHeld(name[1], {scene_id}))
             => RefusedUnchanged
       /\ \A scene_id \in SceneIds :
             (AsyncDeleteScene(scene_id) /\ scene_id \notin DOMAIN store)
             => RefusedUnchanged]_vars

\* ----------------------------------- claims on scenes and buttons pressed
\* The step is a run of one of the three handlers and starts a set_dmx write.
PressWrites ==
    /\ \/ AllLoadsPress
       \/ \E scene_id \in SceneIds : AsyncExecuteScene(scene_id) \/ SceneButtonPress(scene_id)
    /\ written'.outcome = "sent"

\* When the latest set_dmx write was started, by a toggle or by a scene or
\* button, -1 if there was none.  Every device has its address here and the
\* testing mode is off, so that every toggle that passes the cooldown gate
\* and finds a state to change starts a write.
PreviousWrite ==
    IF last_press_time > last_accepted_time THEN last_press_time ELSE last_accepted_time

\* C33: a set_dmx write, started by a toggle, a scene or a button, comes no
\* less than Cooldown seconds after the set_dmx write before it.
C33_WritesCooldownApart ==
    [][((PressWrites \/ \E b \in Breakers : FrameSent(b)) /\ PreviousWrite >= 0)
       => now - PreviousWrite >= Cooldown]_vars

\* C37: in the frame that executing a scene writes, by async_execute_scene
\* or by the button of the scene, a breaker at an address of its own carries
\* the state the scene saved for its switch, "255" for on and "0" for off,
\* and "255" when the scene does not list the switch.
C37_FrameCarriesSavedStates ==
    [][\A scene_id \in SceneIds :
          (/\ AsyncExecuteScene(scene_id) \/ SceneButtonPress(scene_id)
           /\ written'.outcome = "sent")
          => \A b \in Breakers :
                (\A d \in Breakers \ {b} : dmx_address_sensor[d] # dmx_address_sensor[b])
                => written'.frame[dmx_address_sensor[b]]
                      = IF SwitchEntityId(b) \notin DOMAIN store[scene_id].relay_states
                        THEN "255"
                        ELSE IF store[scene_id].relay_states[SwitchEntityId(b)]
                        THEN "255" ELSE "0"]_vars

\* ------------------------------------------ claims on the scene buttons
\* C38: when a call of _refresh_buttons returns, the scene ids with a
\* tracked button are the ids of the scenes in the storage of the manager.
C38_ButtonsMatchStorage ==
    [][\A r \in Refreshers :
          (refresh[r].pc # "idle" /\ refresh'[r].pc = "idle")
          => buttons' = DOMAIN button_scenes']_vars

====
